---- MODULE Spec2Model ----
(***************************************************************************)
(* A model of the chinesebuffet matching / enrichment scripts.             *)
(*                                                                         *)
(*   SpecMatch   the three matchers (match-restaurants.py,                 *)
(*               match-restaurants-selenium.py,                            *)
(*               match-restaurants-yelp-api.py) run one after another on   *)
(*               data/restaurant-mapping.json.                             *)
(*   SpecEnrich  the two enrichment passes (get-yelp-business-details.py,  *)
(*               enrich-menu-url-unwrangle.py) run one after another on    *)
(*               Example JSON/yelp-restaurant-mapping.json.                *)
(*   SpecGeo     the tiered neighborhood lookup of fill-neighborhoods-free *)
(*               and fill-neighborhoods-extracted, record after record.    *)
(***************************************************************************)
EXTENDS Integers, Sequences, FiniteSets, TLC

(***************************************************************************)
(* Bounds of the model.                                                    *)
(***************************************************************************)
\* number of records of the input file (buffets-by-id.json)
NumRecords == 3

Ids == 1..NumRecords

\* The Yelp Fusion daily allowance (check-api-usage.py: daily_limit = 5000,
\* match-restaurants-yelp-api.py line 232), scaled to the model's input size:
\* what matters is that the input can hold more pending records than the
\* allowance.
daily_limit == 2

\* enrich-menu-url-unwrangle.py: CREDIT_LIMIT = 100 and BATCH_SIZE = 100,
\* scaled alike (equal to each other, below the number of records)
CREDIT_LIMIT == 2
BATCH_SIZE == 2

\* get-yelp-business-details.py --batch takes a value in 1..MaxBatchSize
MaxBatchSize == 2

(***************************************************************************)
(* Values.                                                                 *)
(***************************************************************************)
\* JSON null / Python None
Null == "null"
\* the external business ids a Yelp search can settle on
YelpIds == {"y1"}
\* the external location id a TripAdvisor search can settle on
TaIds == {"t1"}

MATCH_RESTAURANTS == "match_restaurants"
MATCH_RESTAURANTS_SELENIUM == "match_restaurants_selenium"
MATCH_RESTAURANTS_YELP_API == "match_restaurants_yelp_api"
Matchers == {MATCH_RESTAURANTS, MATCH_RESTAURANTS_SELENIUM, MATCH_RESTAURANTS_YELP_API}

\* a key that is not in the mapping dict
NoEntry == [present |-> FALSE, yelp |-> Null, tripadvisor |-> Null]
\* the entry the matchers create for a record: both source slots None
NewEntry == [present |-> TRUE, yelp |-> Null, tripadvisor |-> Null]
\* mapping = {}
EmptyMapping == [i \in Ids |-> NoEntry]

\* a slot read with .get(...) is truthy when it holds a match dict
Truthy(slot) == slot # Null

VARIABLES
    buffets,      \* input file: buffets[id] = the record has name, city and state
    mappingFile,  \* data/restaurant-mapping.json: [state, data]
    script,       \* the matcher of the current (or last) run
    pc,           \* "idle", "loop", "done", "killed", "load_failed"
    mapping,      \* the run's in-memory mapping dict
    idx,          \* input records the loop has gone past
    calls,        \* search requests issued by the run
    lastStatus,   \* HTTP status of the last iteration's answers, per source (0: none)
    attempts,     \* requests sent to Yelp for the record of the last iteration
    trace         \* the requests and sleeps of the run's last searching iteration, in order

matchVars == <<buffets, mappingFile, script, pc, mapping, idx, calls, lastStatus, attempts, trace>>

VARIABLES
    yelpFile,       \* Example JSON/yelp-restaurant-mapping.json: [state, data]
    backupFile,     \* yelp-restaurant-mapping.json.backup: [state, data]
    eScript,        \* the enrichment pass of the current (or last) run
    epc,            \* "idle", "loop", "done", "killed", "crashed", "load_failed"
    data,           \* the run's in-memory dict (mapping in the details pass)
    todo,           \* yelp_restaurants / missing_records: the ids the loop walks
    pos,            \* elements of todo the loop has gone past
    batch_size,     \* --batch of the details pass
    processed,      \* details pass: records requested
    errors,         \* details pass: requests that failed
    successful,     \* menu pass: records updated
    failed,         \* menu pass: records not updated
    credits_used,   \* menu pass: requests issued
    out_of_credits, \* menu pass: the API answered 402 or 403
    eStatus         \* HTTP status of the last answer of the run (0: none)

enrichVars == <<yelpFile, backupFile, eScript, epc, data, todo, pos, batch_size,
                processed, errors, successful, failed, credits_used, out_of_credits, eStatus>>

VARIABLES
    entries,   \* the run's in-memory list of entries (data in process_json_file)
    outFile,   \* the entries as last written to output_file
    gScript,   \* the neighborhood filler of the current (or last) run
    gpc,       \* "idle", "record", "reverse", "forward", "done", "stopped",
               \* "interrupted", "killed"
    gi,        \* 1-based index of the entry the loop is at
    attempt,   \* attempt index of the lookup in progress
    codes,     \* HTTP status of every request sent for the current entry
    waits,     \* every sleep the lookups of the current entry made, in seconds
    error_count,        \* entries whose processing raised
    consecutive_errors, \* entries in a row whose processing raised
    geoBackup, \* input_file + '.backup': [state, data]
    tiers      \* the methods of get_neighborhood that returned for the current
               \* entry, in order: [tier, yielded]

geoVars == <<entries, outFile, gScript, gpc, gi, attempt, codes, waits,
             error_count, consecutive_errors, geoBackup, tiers>>

VARIABLES
    sTarget,  \* the record searched for: [city, phone]
    sCands,   \* the candidates a search got back, in the order of the answer
    sFn,      \* the search function applied ("none" before)
    sResult,  \* what the search returned
    nScript,  \* the script whose normalize_name is applied
    nInput,   \* a name, as a sequence of characters
    nOnce,    \* normalize_name(nInput)
    nTwice,   \* normalize_name(normalize_name(nInput))
    npc       \* "input", "once", "twice"

pureVars == <<sTarget, sCands, sFn, sResult, nScript, nInput, nOnce, nTwice, npc>>

VARIABLES
    mReport    \* what the last run of a progress monitor reported

monVars == <<mReport>>

VARIABLES
    simA,      \* a name, as a sequence of characters
    simB,      \* another name
    simScore,  \* name_score of the two
    simpc      \* "input", "scored"

simVars == <<simA, simB, simScore, simpc>>

VARIABLES
    jValue,    \* a mapping in memory, as a JSON value
    jText,     \* the text of the mapping file
    jLoaded,   \* the mapping the next run loads
    jpc        \* "value", "saved", "loaded"

jsonVars == <<jValue, jText, jLoaded, jpc>>

VARIABLES
    rOriginal, \* the elements of the array the input file held before it was cut
    rInput,    \* the text of the input file
    rTries,    \* the cut points tried, in order: what was appended, whether it parsed
    rData,     \* best_data
    rOutput,   \* the output file: [written, text]
    rResult    \* "none" before the run, then "valid", "repaired", "failed"

repairVars == <<rOriginal, rInput, rTries, rData, rOutput, rResult>>

VARIABLES
    mEarlier   \* processed count of the report before mReport (-1: none)
watchVars == <<mEarlier>>
VARIABLES
    scrScript,    \* the scraper of the current (or last) run
    scrpc,        \* "idle", "loop", "done"
    scrList,      \* yelp_restaurants / ta_restaurants: the ids with a match and a url
    scrFiles,     \* the ids whose output file exists in the output directory
    scrBefore,    \* scrFiles as the run found it
    scrBatch,     \* --batch
    scrPos,       \* elements of scrList the loop has gone past
    scrProcessed, \* processed
    scrFetched    \* the ids the run has scraped, in order
scrapeVars == <<scrScript, scrpc, scrList, scrFiles, scrBefore, scrBatch, scrPos,
                scrProcessed, scrFetched>>
VARIABLES
    pScript,   \* the filler whose parse_neighborhood_from_address is applied
    pAddress,  \* the address, as a sequence of characters
    pOther,    \* the city (free) or the state (extracted) of the entry
    pResult,   \* what the function returned: [found, value]
    ppc        \* "input", "parsed"
parseVars == <<pScript, pAddress, pOther, pResult, ppc>>
VARIABLES
    oScript,   \* the matcher of the run
    oAnswers,  \* what the sources answer for each record: [yelp, tripadvisor]
    oOrder,    \* the order the records are in the input of the run
    oMapping,  \* the run's mapping
    oPos       \* records of oOrder the loop has gone past
orderVars == <<oScript, oAnswers, oOrder, oMapping, oPos>>
extraVars == <<watchVars, scrapeVars, parseVars, orderVars>>
toolVars == <<monVars, simVars, jsonVars, repairVars, extraVars>>

vars == <<matchVars, enrichVars, geoVars, pureVars, toolVars>>

(***************************************************************************)
(* The sources' answers.  best is the match the search settles on from     *)
(* the answer's body (None when no candidate passes).                      *)
(***************************************************************************)
NoResponse == [status |-> 0, best |-> Null]

Answers(statuses, ids) ==
    {[status |-> 200, best |-> b] : b \in ids \cup {Null}}
        \cup {[status |-> s, best |-> Null] : s \in statuses \ {200}}

\* Yelp Fusion search endpoint
YelpApiResponses == Answers({200, 401, 429}, YelpIds)
\* rendered pages: loaded, blocked (403), or any other failure (exception)
YelpPageResponses == Answers({200, 403, 500}, YelpIds)
TaPageResponses == Answers({200, 403, 500}, TaIds)

YelpResponses(s) == IF s = MATCH_RESTAURANTS_YELP_API THEN YelpApiResponses ELSE YelpPageResponses
TaResponses(s) == IF s = MATCH_RESTAURANTS_YELP_API THEN {NoResponse} ELSE TaPageResponses

\* match-restaurants-yelp-api.py search_yelp_api: 401 and every non-200 return None
search_yelp_api(resp) ==
    IF resp.status = 401 THEN Null
    ELSE IF resp.status # 200 THEN Null
    ELSE resp.best

\* match-restaurants.py search_yelp / search_tripadvisor (and the Selenium
\* variants): 403 returns None, raise_for_status / any exception returns None
search_page(resp) ==
    IF resp.status = 403 THEN Null
    ELSE IF resp.status # 200 THEN Null
    ELSE resp.best

(***************************************************************************)
(* One iteration of the matchers' loops, as a function of the mapping.     *)
(***************************************************************************)
\* "Skip if already matched" of match_restaurants and match_restaurants_selenium
MatchSkip(m, id) == m[id].present /\ Truthy(m[id].yelp) /\ Truthy(m[id].tripadvisor)

\* a skip test that also asks for the tripadvisor slot, which the yelp-api
\* matcher never fills
YelpApiSkip_BothSlots(m, id) ==
    m[id].present /\ Truthy(m[id].yelp) /\ Truthy(m[id].tripadvisor)

\* "Skip if already matched" of match_restaurants_yelp_api
YelpApiSkip(m, id) == m[id].present /\ Truthy(m[id].yelp)

\* a skip test that passes over every record that has an entry
Skips_EntryPresent(s, m, id) == m[id].present

\* the skip test of the running matcher
Skips(s, m, id) == IF s = MATCH_RESTAURANTS_YELP_API THEN YelpApiSkip(m, id) ELSE MatchSkip(m, id)

\* if buffet_id not in mapping: mapping[buffet_id] = {...}
WithEntry(m, id) == IF m[id].present THEN m ELSE [m EXCEPT ![id] = NewEntry]

\* a store that also fills the empty slot of every entry made so far
SetSlot_FillsEmptySlots(m, id, slot, result) ==
    IF result # Null
    THEN [i \in Ids |-> IF i = id \/ (m[i].present /\ m[i][slot] = Null)
                        THEN [m[i] EXCEPT ![slot] = result] ELSE m[i]]
    ELSE m

\* if result: mapping[buffet_id][slot] = result
SetSlot(m, id, slot, result) ==
    IF result # Null THEN [m EXCEPT ![id][slot] = result] ELSE m

\* "Search Yelp if not already matched"
SearchesYelp(s, m, id) ==
    IF s = MATCH_RESTAURANTS_YELP_API THEN TRUE ELSE ~Truthy(m[id].yelp)

\* a TripAdvisor search that is only made once the record has a Yelp match
SearchesTa_AfterYelpMatch(s, m, id) ==
    IF s = MATCH_RESTAURANTS_YELP_API THEN FALSE
    ELSE ~Truthy(m[id].tripadvisor) /\ Truthy(m[id].yelp)

\* "Search TripAdvisor if not already matched"
SearchesTa(s, m, id) ==
    IF s = MATCH_RESTAURANTS_YELP_API THEN FALSE ELSE ~Truthy(m[id].tripadvisor)

\* the mapping after the searches of one record
Iter(s, m, id, ry, rt) ==
    LET m1 == WithEntry(m, id)
        m2 == IF SearchesYelp(s, m1, id)
              THEN SetSlot(m1, id, "yelp",
                           IF s = MATCH_RESTAURANTS_YELP_API THEN search_yelp_api(ry)
                           ELSE search_page(ry))
              ELSE m1
    IN  IF SearchesTa(s, m2, id)
        THEN SetSlot(m2, id, "tripadvisor", search_page(rt))
        ELSE m2

\* the searches the iteration issues
IterCalls(s, m, id) ==
    LET m1 == WithEntry(m, id)
    IN  (IF SearchesYelp(s, m1, id) THEN 1 ELSE 0)
            + (IF SearchesTa(s, m1, id) THEN 1 ELSE 0)

IterStatus(s, m, id, ry, rt) ==
    LET m1 == WithEntry(m, id)
    IN  [yelp |-> IF SearchesYelp(s, m1, id) THEN ry.status ELSE 0,
         tripadvisor |-> IF SearchesTa(s, m1, id) THEN rt.status ELSE 0]

\* with open(mapping_file, 'w') as f: json.dump(mapping, f): the completed write
Save(m) == [state |-> "complete", data |-> m]

\* the same write cut short: open(..., 'w') has truncated the file and only a
\* strict prefix of the document (possibly nothing) is on disk
TornSave(m) == [state |-> "partial", data |-> EmptyMapping]

\* json.load succeeds on a complete document; a file that does not exist is
\* not loaded (mapping stays {})
Parseable(file) == file.state # "partial"

\* the configured source slots of a matcher
SourcesOf(s) == IF s = MATCH_RESTAURANTS_YELP_API THEN {"yelp"} ELSE {"yelp", "tripadvisor"}

(***************************************************************************)
(* The requests and sleeps of one iteration.  A sleep is counted in tenths *)
(* of a second (time.sleep(0.2) is Sleep(2)).                              *)
(***************************************************************************)
Get(host, page) == [op |-> "get", host |-> host, page |-> page, seconds |-> 0]
Sleep(t) == [op |-> "sleep", host |-> "none", page |-> "none", seconds |-> t]

\* match-restaurants.py search_yelp: the home page "to get cookies", the
\* search page, and time.sleep(2) when neither the 403 branch nor an
\* exception returned before it
search_yelp_events(resp) ==
    <<Get("yelp", "home"), Get("yelp", "search")>>
        \o (IF resp.status = 200 THEN <<Sleep(20)>> ELSE <<>>)

\* match-restaurants.py search_tripadvisor: as search_yelp, but the first
\* link that passes is returned from inside the loop, before the sleep
search_tripadvisor_events(resp) ==
    <<Get("tripadvisor", "home"), Get("tripadvisor", "search")>>
        \o (IF resp.status = 200 /\ resp.best = Null THEN <<Sleep(20)>> ELSE <<>>)

\* match-restaurants-selenium.py search_yelp_selenium: driver.get(url), then
\* time.sleep(4) unless driver.get raised
search_yelp_selenium_events(resp) ==
    <<Get("yelp", "search")>> \o (IF resp.status # 500 THEN <<Sleep(40)>> ELSE <<>>)

\* match-restaurants-selenium.py search_tripadvisor_selenium
search_tripadvisor_selenium_events(resp) ==
    <<Get("tripadvisor", "search")>> \o (IF resp.status # 500 THEN <<Sleep(50)>> ELSE <<>>)

\* match-restaurants-yelp-api.py search_yelp_api: one requests.get
search_yelp_api_events(resp) == <<Get("yelp", "search")>>

\* the Yelp block of the loop body
YelpEvents(s, ry) ==
    IF s = MATCH_RESTAURANTS_YELP_API THEN search_yelp_api_events(ry)
    ELSE IF s = MATCH_RESTAURANTS_SELENIUM
         THEN search_yelp_selenium_events(ry) \o <<Sleep(20)>>
    ELSE search_yelp_events(ry)

\* the TripAdvisor block of the loop body
TaEvents(s, rt) ==
    IF s = MATCH_RESTAURANTS_SELENIUM
    THEN search_tripadvisor_selenium_events(rt) \o <<Sleep(30)>>
    ELSE search_tripadvisor_events(rt)

\* a loop body that runs its TripAdvisor block before its Yelp block
IterEvents_TripadvisorFirst(s, m, id, ry, rt) ==
    (IF SearchesTa(s, WithEntry(m, id), id) THEN TaEvents(s, rt) ELSE <<>>)
        \o (IF SearchesYelp(s, WithEntry(m, id), id) THEN YelpEvents(s, ry) ELSE <<>>)
        \o (IF s = MATCH_RESTAURANTS_YELP_API THEN <<Sleep(2)>> ELSE <<>>)

\* the loop body of one record: the Yelp block, the TripAdvisor block, and
\* the time.sleep(0.2) that ends every iteration of the yelp-api matcher
IterEvents(s, m, id, ry, rt) ==
    (IF SearchesYelp(s, WithEntry(m, id), id) THEN YelpEvents(s, ry) ELSE <<>>)
        \o (IF SearchesTa(s, WithEntry(m, id), id) THEN TaEvents(s, rt) ELSE <<>>)
        \o (IF s = MATCH_RESTAURANTS_YELP_API THEN <<Sleep(2)>> ELSE <<>>)

(***************************************************************************)
(* Actions of the matchers.                                                *)
(***************************************************************************)
\* the input file: at most one record lacks name, city or state
Inputs == {b \in [Ids -> BOOLEAN] : Cardinality({i \in Ids : ~b[i]}) <= 1}

\* no matcher has run yet: the mapping file does not exist
MatchIdle ==
    /\ buffets \in Inputs
    /\ mappingFile = [state |-> "absent", data |-> EmptyMapping]
    /\ script = MATCH_RESTAURANTS
    /\ pc = "idle"
    /\ mapping = EmptyMapping
    /\ idx = 0
    /\ calls = 0
    /\ lastStatus = [yelp |-> 0, tripadvisor |-> 0]
    /\ attempts = 0
    /\ trace = <<>>

\* a matcher is started: mapping = {} or json.load(mapping_file)
StartRun ==
    /\ pc # "loop"
    /\ \E s \in Matchers : script' = s
    /\ IF ~Parseable(mappingFile)
       THEN /\ pc' = "load_failed"
            /\ mapping' = EmptyMapping
       ELSE /\ pc' = "loop"
            /\ mapping' = mappingFile.data
    /\ idx' = 0
    /\ calls' = 0
    /\ lastStatus' = [yelp |-> 0, tripadvisor |-> 0]
    /\ attempts' = 0
    /\ trace' = <<>>
    /\ UNCHANGED <<buffets, mappingFile, enrichVars, geoVars, pureVars, toolVars>>

\* a loop iteration that ends in `continue`: already matched, or no name/city/state
SkipRecord ==
    /\ pc = "loop"
    /\ idx < NumRecords
    /\ Skips(script, mapping, idx + 1) \/ ~buffets[idx + 1]
    /\ idx' = idx + 1
    /\ UNCHANGED <<buffets, mappingFile, script, pc, mapping, calls, lastStatus, attempts, trace, enrichVars, geoVars, pureVars, toolVars>>

\* a whole loop iteration: entry, searches, save
ProcessRecord ==
    /\ pc = "loop"
    /\ idx < NumRecords
    /\ ~Skips(script, mapping, idx + 1)
    /\ buffets[idx + 1]
    /\ \E ry \in YelpResponses(script), rt \in TaResponses(script) :
          /\ mapping' = Iter(script, mapping, idx + 1, ry, rt)
          /\ lastStatus' = IterStatus(script, mapping, idx + 1, ry, rt)
          /\ trace' = IterEvents(script, mapping, idx + 1, ry, rt)
    /\ calls' = calls + IterCalls(script, mapping, idx + 1)
    /\ attempts' = IF SearchesYelp(script, WithEntry(mapping, idx + 1), idx + 1) THEN 1 ELSE 0
    /\ mappingFile' = Save(mapping')
    /\ idx' = idx + 1
    /\ UNCHANGED <<buffets, script, pc, enrichVars, geoVars, pureVars, toolVars>>

\* the same iteration, the process being killed or interrupted inside json.dump
CrashInSave ==
    /\ pc = "loop"
    /\ idx < NumRecords
    /\ ~Skips(script, mapping, idx + 1)
    /\ buffets[idx + 1]
    /\ mappingFile' = TornSave(mapping)
    /\ pc' = "killed"
    /\ mapping' = EmptyMapping
    /\ idx' = 0
    /\ calls' = 0
    /\ lastStatus' = [yelp |-> 0, tripadvisor |-> 0]
    /\ attempts' = 0
    /\ trace' = <<>>
    /\ UNCHANGED <<buffets, script, enrichVars, geoVars, pureVars, toolVars>>

\* the process is killed or interrupted anywhere else: nothing is written
Interrupt ==
    /\ pc = "loop"
    /\ pc' = "killed"
    /\ mapping' = EmptyMapping
    /\ idx' = 0
    /\ calls' = 0
    /\ lastStatus' = [yelp |-> 0, tripadvisor |-> 0]
    /\ attempts' = 0
    /\ trace' = <<>>
    /\ UNCHANGED <<buffets, mappingFile, script, enrichVars, geoVars, pureVars, toolVars>>

\* the input is exhausted: "Matching complete!"
FinishRun ==
    /\ pc = "loop"
    /\ idx = NumRecords
    /\ pc' = "done"
    /\ UNCHANGED <<buffets, mappingFile, script, mapping, idx, calls, lastStatus, attempts, trace, enrichVars, geoVars, pureVars, toolVars>>

(***************************************************************************)
(* The enrichment passes on Example JSON/yelp-restaurant-mapping.json.     *)
(*                                                                         *)
(* An entry of that file, as far as the passes read and write it:          *)
(*   yelp        the yelp slot holds a match (with its id)                 *)
(*   url         the match has a url                                       *)
(*   details     "none": no details key; "menu_only": the object           *)
(*               update_record_menu_url creates ({"attributes": {...}});   *)
(*               "full": the object get_business_details builds           *)
(*   attributes  details["attributes"]: "missing" (no key), "null", "dict" *)
(*   menu_url    details["attributes"]["menu_url"], NoMenu when absent     *)
(***************************************************************************)
DETAILS == "get-yelp-business-details"
ENRICH == "enrich-menu-url-unwrangle"

\* URLs are sequences of one-character strings; no menu_url is the empty one
NoMenu == <<>>
MENU_WITH_QUERY == <<"/", "m", "?", "u">>
\* the menu_url of an answer, as the page links it: a path with a parameter
MenuUrls == {MENU_WITH_QUERY}

\* url.split('?')[0]
RECURSIVE clean_yelp_url(_)
clean_yelp_url(url) ==
    IF url = <<>> \/ Head(url) = "?" THEN <<>>
    ELSE <<Head(url)>> \o clean_yelp_url(Tail(url))

Unmatched == [yelp |-> FALSE, url |-> FALSE, details |-> "none",
              attributes |-> "missing", menu_url |-> NoMenu]
Matched(hasUrl) == [yelp |-> TRUE, url |-> hasUrl, details |-> "none",
                    attributes |-> "missing", menu_url |-> NoMenu]
\* the entries a matcher leaves: no match, a match with or without a url
MatcherEntries == {Unmatched, Matched(TRUE), Matched(FALSE)}

NoFile == [state |-> "absent", data |-> [i \in Ids |-> Unmatched]]

IdSeq == [i \in 1..NumRecords |-> i]
Range(q) == {q[k] : k \in 1..Len(q)}

\* get-yelp-business-details.py line 120: if yelp_info.get('details')
HasDetails(e) == e.details # "none"

\* the menu_url find_records_missing_menu_url reads (lines 62-64)
MenuOf(e) ==
    IF HasDetails(e) /\ e.attributes = "dict" THEN e.menu_url ELSE NoMenu

\* find_records_missing_menu_url: the record is a candidate
Missing(e) == e.yelp /\ e.url /\ MenuOf(e) = NoMenu

\* find_records_missing_menu_url(data, limit): the first candidates in file
\* order, the scan stopping once limit of them are collected
RECURSIVE FindMissing(_, _, _, _)
FindMissing(d, i, acc, limit) ==
    IF i > NumRecords THEN acc
    ELSE IF Missing(d[i])
         THEN LET a == Append(acc, i)
              IN  IF Len(a) >= limit THEN a ELSE FindMissing(d, i + 1, a, limit)
         ELSE FindMissing(d, i + 1, acc, limit)

find_records_missing_menu_url(d, limit) == FindMissing(d, 1, <<>>, limit)

\* answers of the Unwrangle API
EnrichAnswers ==
    {[status |-> 200, menu_url |-> u] : u \in MenuUrls \cup {NoMenu}}
        \cup {[status |-> s, menu_url |-> NoMenu] : s \in {402, 403, 429, 500}}

\* a classification that takes 403 for an ordinary HTTP error
fetch_menu_url_forbidden_is_error(ans) ==
    IF ans.status = 200 THEN [menu_url |-> ans.menu_url, error |-> Null]
    ELSE IF ans.status = 402 THEN [menu_url |-> NoMenu, error |-> "OUT_OF_CREDITS"]
    ELSE IF ans.status = 429 THEN [menu_url |-> NoMenu, error |-> "RATE_LIMITED"]
    ELSE [menu_url |-> NoMenu, error |-> "HTTP_ERROR"]

\* fetch_menu_url_from_unwrangle: (menu_url, error)
fetch_menu_url_from_unwrangle(ans) ==
    IF ans.status = 200 THEN [menu_url |-> ans.menu_url, error |-> Null]
    ELSE IF ans.status = 402 \/ ans.status = 403
         THEN [menu_url |-> NoMenu, error |-> "OUT_OF_CREDITS"]
    ELSE IF ans.status = 429 THEN [menu_url |-> NoMenu, error |-> "RATE_LIMITED"]
    ELSE [menu_url |-> NoMenu, error |-> "HTTP_ERROR"]

\* update_record_menu_url, line 160: the assignment into
\* details['attributes'] raises TypeError when that value is None
UpdateRaises(e) == e.yelp /\ HasDetails(e) /\ e.attributes = "null"

\* update_record_menu_url on an entry with a yelp slot
update_record_menu_url(e, menu) ==
    [e EXCEPT !.details = IF e.details = "none" THEN "menu_only" ELSE e.details,
              !.attributes = "dict",
              !.menu_url = menu]

\* main, lines 258-261: the answer that breaks the loop
StopsLoop(error) == error = "OUT_OF_CREDITS"

\* main, line 290: the file is written when something was updated
SavesAtEnd(succ, ooc) == succ > 0

\* answers of the Yelp business details endpoint
DetailsAnswers ==
    {[status |-> 200, attributes |-> "null", menu_url |-> NoMenu],
     [status |-> 200, attributes |-> "dict", menu_url |-> NoMenu]}
        \cup {[status |-> 200, attributes |-> "dict", menu_url |-> u] : u \in MenuUrls}
        \cup {[status |-> s, attributes |-> "missing", menu_url |-> NoMenu] : s \in {401, 404, 500}}

\* a classification that takes the body of a 404 for business data
DetailsError_NotFoundIsData(ans) == ans.status # 200 /\ ans.status # 404

\* get_business_details: {"error": ...} for 401, 404 and every other non-200
DetailsError(ans) == ans.status = 401 \/ ans.status = 404 \/ ans.status # 200

\* yelp_info['details'] = details, with 'attributes': data.get('attributes')
WithDetails(e, ans) ==
    [e EXCEPT !.details = "full", !.attributes = ans.attributes, !.menu_url = ans.menu_url]

\* the mapping files the passes start from: at most one record is not a
\* match with a url
YelpInputs ==
    {d \in [Ids -> MatcherEntries] : Cardinality({i \in Ids : d[i] # Matched(TRUE)}) <= 1}

\* the mapping file as the passes find it: written by earlier matching
EnrichIdle ==
    /\ yelpFile \in {[state |-> "complete", data |-> d] : d \in YelpInputs}
    /\ backupFile = NoFile
    /\ eScript = DETAILS
    /\ epc = "idle"
    /\ data = NoFile.data
    /\ todo = <<>>
    /\ pos = 0
    /\ batch_size = 1
    /\ processed = 0
    /\ errors = 0
    /\ successful = 0
    /\ failed = 0
    /\ credits_used = 0
    /\ out_of_credits = FALSE
    /\ eStatus = 0

\* the process is gone: its memory with it
EnrichMemoryGone ==
    /\ data' = NoFile.data
    /\ todo' = <<>>
    /\ pos' = 0
    /\ processed' = 0
    /\ errors' = 0
    /\ successful' = 0
    /\ failed' = 0
    /\ credits_used' = 0
    /\ out_of_credits' = FALSE
    /\ eStatus' = 0

\* fetch_details_for_matched_restaurants starts: load, filter
StartDetails ==
    /\ epc # "loop"
    /\ eScript' = DETAILS
    /\ \E b \in 1..MaxBatchSize : batch_size' = b
    /\ IF ~Parseable(yelpFile)
       THEN /\ epc' = "load_failed"
            /\ data' = NoFile.data
            /\ todo' = <<>>
       ELSE /\ epc' = "loop"
            /\ data' = yelpFile.data
            /\ todo' = SelectSeq(IdSeq, LAMBDA i : yelpFile.data[i].yelp)
    /\ pos' = 0
    /\ processed' = 0
    /\ errors' = 0
    /\ successful' = 0
    /\ failed' = 0
    /\ credits_used' = 0
    /\ out_of_credits' = FALSE
    /\ eStatus' = 0
    /\ UNCHANGED <<yelpFile, backupFile, matchVars, geoVars, pureVars, toolVars>>

\* "Skip if we already have detailed data"
DetailsSkip ==
    /\ epc = "loop"
    /\ eScript = DETAILS
    /\ pos < Len(todo)
    /\ HasDetails(data[todo[pos + 1]])
    /\ pos' = pos + 1
    /\ UNCHANGED <<yelpFile, backupFile, eScript, epc, data, todo, batch_size, processed,
                   errors, successful, failed, credits_used, out_of_credits, eStatus, matchVars, geoVars, pureVars, toolVars>>

\* one iteration of the details loop: request, update, batched save
DetailsFetch ==
    /\ epc = "loop"
    /\ eScript = DETAILS
    /\ pos < Len(todo)
    /\ ~HasDetails(data[todo[pos + 1]])
    /\ \E ans \in DetailsAnswers :
          /\ eStatus' = ans.status
          /\ IF DetailsError(ans)
             THEN /\ errors' = errors + 1
                  /\ data' = data
             ELSE /\ errors' = errors
                  /\ data' = [data EXCEPT ![todo[pos + 1]] = WithDetails(@, ans)]
    /\ processed' = processed + 1
    /\ yelpFile' = IF processed' % batch_size = 0 THEN Save(data') ELSE yelpFile
    /\ pos' = pos + 1
    /\ UNCHANGED <<backupFile, eScript, epc, todo, batch_size, successful, failed,
                   credits_used, out_of_credits, matchVars, geoVars, pureVars, toolVars>>

\* "Final save"
DetailsFinish ==
    /\ epc = "loop"
    /\ eScript = DETAILS
    /\ pos = Len(todo)
    /\ yelpFile' = Save(data)
    /\ epc' = "done"
    /\ UNCHANGED <<backupFile, eScript, data, todo, pos, batch_size, processed, errors,
                   successful, failed, credits_used, out_of_credits, eStatus, matchVars, geoVars, pureVars, toolVars>>

\* the menu pass starts: load, find the records missing a menu_url
StartEnrich ==
    /\ epc # "loop"
    /\ eScript' = ENRICH
    /\ IF ~Parseable(yelpFile)
       THEN /\ epc' = "load_failed"
            /\ data' = NoFile.data
            /\ todo' = <<>>
       ELSE /\ data' = yelpFile.data
            /\ todo' = find_records_missing_menu_url(yelpFile.data, BATCH_SIZE)
            /\ epc' = IF Len(todo') = 0 THEN "done" ELSE "loop"
    /\ pos' = 0
    /\ processed' = 0
    /\ errors' = 0
    /\ successful' = 0
    /\ failed' = 0
    /\ credits_used' = 0
    /\ out_of_credits' = FALSE
    /\ eStatus' = 0
    /\ UNCHANGED <<yelpFile, backupFile, batch_size, matchVars, geoVars, pureVars, toolVars>>

\* one iteration of the menu loop
EnrichStep ==
    /\ epc = "loop"
    /\ eScript = ENRICH
    /\ pos < Len(todo)
    /\ ~out_of_credits
    /\ \E ans \in EnrichAnswers :
          LET r == fetch_menu_url_from_unwrangle(ans)
              id == todo[pos + 1]
          IN  /\ eStatus' = ans.status
              /\ credits_used' = credits_used + 1
              /\ IF StopsLoop(r.error)
                 THEN /\ out_of_credits' = TRUE
                      /\ UNCHANGED <<data, successful, failed, epc>>
                 ELSE IF r.error # Null
                 THEN /\ failed' = failed + 1
                      /\ UNCHANGED <<data, successful, out_of_credits, epc>>
                 ELSE IF r.menu_url # NoMenu
                 THEN IF UpdateRaises(data[id])
                      THEN /\ epc' = "crashed"
                           /\ UNCHANGED <<data, successful, failed, out_of_credits>>
                      ELSE /\ data' = [data EXCEPT ![id] = update_record_menu_url(@, r.menu_url)]
                           /\ successful' = successful + 1
                           /\ UNCHANGED <<failed, out_of_credits, epc>>
                 ELSE /\ failed' = failed + 1
                      /\ UNCHANGED <<data, successful, out_of_credits, epc>>
    /\ pos' = pos + 1
    /\ UNCHANGED <<yelpFile, backupFile, eScript, todo, batch_size, processed, errors, matchVars, geoVars, pureVars, toolVars>>

\* after the loop: summary, save_json_file (backup, then write)
EnrichFinish ==
    /\ epc = "loop"
    /\ eScript = ENRICH
    /\ pos = Len(todo) \/ out_of_credits
    /\ IF SavesAtEnd(successful, out_of_credits)
       THEN /\ backupFile' = yelpFile
            /\ yelpFile' = Save(data)
       ELSE UNCHANGED <<yelpFile, backupFile>>
    /\ epc' = "done"
    /\ UNCHANGED <<eScript, data, todo, pos, batch_size, processed, errors, successful,
                   failed, credits_used, out_of_credits, eStatus, matchVars, geoVars, pureVars, toolVars>>

\* either pass is killed or interrupted between two writes
EnrichInterrupt ==
    /\ epc = "loop"
    /\ epc' = "killed"
    /\ EnrichMemoryGone
    /\ UNCHANGED <<yelpFile, backupFile, eScript, batch_size, matchVars, geoVars, pureVars, toolVars>>

(***************************************************************************)
(* Neighborhood filling: fill-neighborhoods-free.py,                       *)
(* fill-neighborhoods-extracted.py, fill-neighborhoods-nominatim.py and    *)
(* fill-neighborhoods.py.  Each walks a JSON array of entries and asks a   *)
(* geocoder (Nominatim, or Google for the last) for the                    *)
(* neighborhood of every entry that lacks one.  One action is one HTTP     *)
(* request of a lookup together with everything the script does with its   *)
(* answer.                                                                 *)
(***************************************************************************)
FREE == "fill-neighborhoods-free.py"
EXTRACTED == "fill-neighborhoods-extracted.py"
NOMINATIM == "fill-neighborhoods-nominatim.py"
GOOGLE == "fill-neighborhoods.py"
Fillers == {FREE, EXTRACTED, NOMINATIM, GOOGLE}

\* retries: int = 3, the default of every geocode_* function
retries == 3

\* batch_size of process_json_file (50 in the scripts, scaled down)
geo_batch_size == 2

\* max_consecutive_errors of process_json_file (5 in the nominatim script, 10
\* in the free and extracted ones), scaled below the number of entries
max_consecutive_errors == 2

\* an entry: has usable coordinates, has an address, the address text names
\* a neighborhood the parser finds, and the neighborhood it carries
FullEntry == [location |-> TRUE, address |-> TRUE, parses |-> FALSE, neighborhood |-> Null]
EntryShapes ==
    { e \in [location : BOOLEAN, address : BOOLEAN, parses : BOOLEAN,
             neighborhood : {Null, "given"}] : e.parses => e.address }

\* Nominatim's answers to one request
GeoAnswers ==
    { [code |-> 200, found |-> TRUE], [code |-> 200, found |-> FALSE],
      [code |-> 429, found |-> FALSE], [code |-> 403, found |-> FALSE],
      [code |-> 500, found |-> FALSE] }

\* One pass of the for loop of geocode_reverse_nominatim (free): again is
\* `continue`, wait the seconds slept before it.
geocode_reverse_nominatim(att, ans) ==
    IF ans.code = 200 THEN [again |-> FALSE, wait |-> 0]
    ELSE IF ans.code = 429 THEN [again |-> TRUE, wait |-> (att + 1) * 2]
    ELSE IF ans.code = 503 THEN [again |-> TRUE, wait |-> (att + 1) * 2]
    ELSE IF ans.code = 403 THEN [again |-> FALSE, wait |-> 0]
    ELSE IF att < retries - 1 THEN [again |-> TRUE, wait |-> 1]
    ELSE [again |-> FALSE, wait |-> 0]

\* One pass of the for loop of geocode_forward_nominatim (free)
geocode_forward_nominatim_free(att, ans) ==
    IF ans.code = 200 THEN [again |-> FALSE, wait |-> 0]
    ELSE IF ans.code = 429 THEN [again |-> TRUE, wait |-> (att + 1) * 2]
    ELSE IF ans.code = 503 THEN [again |-> TRUE, wait |-> (att + 1) * 2]
    ELSE IF ans.code = 403 THEN [again |-> FALSE, wait |-> 0]
    ELSE IF att < retries - 1 THEN [again |-> TRUE, wait |-> 1]
    ELSE [again |-> FALSE, wait |-> 0]

\* One pass of the for loop of geocode_forward_nominatim (extracted)
geocode_forward_nominatim_extracted(att, ans) ==
    IF ans.code = 200 THEN [again |-> FALSE, wait |-> 0]
    ELSE IF ans.code \in {429, 503}
         THEN IF att < retries - 1
              THEN [again |-> TRUE, wait |-> (att + 1) * 2]
              ELSE [again |-> FALSE, wait |-> 0]
    ELSE IF ans.code = 403 THEN [again |-> FALSE, wait |-> 0]
    ELSE IF att < retries - 1 THEN [again |-> TRUE, wait |-> 1]
    ELSE [again |-> FALSE, wait |-> 0]

\* geocode_reverse_nominatim and geocode_forward_nominatim of the nominatim
\* script: one request, whose every failure returns None
geocode_nominatim_once(att, ans) == [again |-> FALSE, wait |-> 0]

\* geocode_reverse and geocode_forward of fill-neighborhoods.py: one request,
\* every status but OK and every exception return None
geocode_google_once(att, ans) == [again |-> FALSE, wait |-> 0]

Lookup(s, method, att, ans) ==
    IF s = NOMINATIM THEN geocode_nominatim_once(att, ans)
    ELSE IF s = GOOGLE THEN geocode_google_once(att, ans)
    ELSE IF method = "reverse" THEN geocode_reverse_nominatim(att, ans)
    ELSE IF s = FREE THEN geocode_forward_nominatim_free(att, ans)
    ELSE geocode_forward_nominatim_extracted(att, ans)

\* get_neighborhood: the lookup an entry starts with
FirstMethod(s, e) ==
    IF s \in {FREE, NOMINATIM, GOOGLE} /\ e.location THEN "reverse"
    ELSE IF e.address THEN "forward"
    ELSE "none"

\* the scripts whose get_neighborhood ends with parse_neighborhood_from_address
HasParse(s) == s \in {FREE, EXTRACTED}

\* a get_neighborhood that parses the address as soon as the reverse lookup
\* returned nothing
AfterLookup_ParseBeforeForward(s, method, e) ==
    IF method = "reverse" /\ e.address /\ HasParse(s) /\ e.parses
    THEN [then |-> "return", value |-> "parsed", parse |-> TRUE]
    ELSE IF method = "reverse" /\ e.address
    THEN [then |-> "forward", value |-> Null, parse |-> HasParse(s)]
    ELSE IF method = "forward" /\ HasParse(s)
    THEN [then |-> "return", value |-> IF e.parses THEN "parsed" ELSE Null,
          parse |-> TRUE]
    ELSE [then |-> "return", value |-> Null, parse |-> FALSE]

\* get_neighborhood: what follows a lookup that returned nothing: "forward",
\* or "return" with the neighborhood the function returns; parse tells
\* whether parse_neighborhood_from_address was called on the way
AfterLookup(s, method, e) ==
    IF method = "reverse" /\ e.address
    THEN [then |-> "forward", value |-> Null, parse |-> FALSE]
    ELSE IF method = "forward" /\ HasParse(s)
    THEN [then |-> "return", value |-> IF e.parses THEN "parsed" ELSE Null,
          parse |-> TRUE]
    ELSE [then |-> "return", value |-> Null, parse |-> FALSE]

\* the methods that have returned once a lookup returned nothing: the lookup,
\* and the parse when get_neighborhood went on to it
TiersAfterMiss(method, e, after, done) ==
    Append(done, [tier |-> method, yielded |-> FALSE])
        \o (IF after.parse THEN <<[tier |-> "parse", yielded |-> e.parses]>> ELSE <<>>)

\* shutil.copy2(input_file, input_file + '.backup'): only the free script
CreatesBackup(s) == s = FREE

NoBackup == [state |-> "absent", data |-> [i \in Ids |-> FullEntry]]

\* the inputs: at most one entry differs from a bare entry with coordinates
\* and an address
GeoInputs ==
    { d \in [Ids -> EntryShapes] :
        \E i \in Ids : \A j \in Ids \ {i} : d[j] = FullEntry }

GeoIdle ==
    /\ entries \in GeoInputs
    /\ outFile = entries
    /\ gScript = FREE
    /\ gpc = "idle"
    /\ gi = 0
    /\ attempt = 0
    /\ codes = <<>>
    /\ waits = <<>>
    /\ error_count = 0
    /\ consecutive_errors = 0
    /\ geoBackup = NoBackup
    /\ tiers = <<>>

\* the tail of one iteration of process_json_file: batched save, next entry
EndOfIteration(ents) ==
    /\ entries' = ents
    /\ outFile' = IF gi % geo_batch_size = 0 THEN ents ELSE outFile
    /\ gi' = gi + 1
    /\ gpc' = "record"
    /\ attempt' = 0

GeoStart ==
    \E s \in Fillers :
        /\ gpc = "idle"
        /\ gScript' = s
        /\ gpc' = "record"
        /\ gi' = 1
        /\ geoBackup' = IF CreatesBackup(s)
                        THEN [state |-> "complete", data |-> outFile]
                        ELSE geoBackup
        /\ UNCHANGED <<entries, outFile, attempt, codes, waits, error_count,
                       consecutive_errors, tiers, matchVars, enrichVars, pureVars, toolVars>>

\* if entry.get('neighborhood'): continue
GeoSkipEntry ==
    /\ gpc = "record"
    /\ gi <= NumRecords
    /\ entries[gi].neighborhood # Null
    /\ gi' = gi + 1
    /\ UNCHANGED <<entries, outFile, gScript, gpc, attempt, codes, waits, error_count,
                   consecutive_errors, geoBackup, tiers, matchVars, enrichVars, pureVars, toolVars>>

\* an entry get_neighborhood has no lookup for
GeoNoRequest ==
    /\ gpc = "record"
    /\ gi <= NumRecords
    /\ entries[gi].neighborhood = Null
    /\ FirstMethod(gScript, entries[gi]) = "none"
    /\ codes' = <<>>
    /\ waits' = <<>>
    /\ consecutive_errors' = 0
    /\ tiers' = <<>>
    /\ EndOfIteration(entries)
    /\ UNCHANGED <<gScript, error_count, geoBackup, matchVars, enrichVars, pureVars, toolVars>>

\* one request of the lookup in progress (the first one of an entry when the
\* loop is at the top of its body)
GeoRequest ==
    \E ans \in GeoAnswers :
        /\ gpc \in {"record", "reverse", "forward"}
        /\ gi <= NumRecords
        /\ gpc = "record" =>
              /\ entries[gi].neighborhood = Null
              /\ FirstMethod(gScript, entries[gi]) # "none"
        /\ LET e == entries[gi]
               fresh == gpc = "record"
               method == IF fresh THEN FirstMethod(gScript, e) ELSE gpc
               att == IF fresh THEN 0 ELSE attempt
               p == Lookup(gScript, method, att, ans)
               returns == ~p.again \/ att + 1 = retries
               found == ans.code = 200 /\ ans.found
               hist == IF fresh THEN <<>> ELSE codes
               slept == IF fresh THEN <<>> ELSE waits
               done == IF fresh THEN <<>> ELSE tiers
               after == AfterLookup(gScript, method, e)
           IN  /\ codes' = Append(hist, ans.code)
               /\ waits' = IF p.wait > 0 THEN Append(slept, p.wait) ELSE slept
               /\ IF ~returns
                  THEN /\ gpc' = method
                       /\ attempt' = att + 1
                       /\ tiers' = done
                       /\ UNCHANGED <<entries, outFile, gi, consecutive_errors>>
                  ELSE IF found
                  THEN /\ EndOfIteration([entries EXCEPT ![gi].neighborhood = "nominatim"])
                       /\ tiers' = Append(done, [tier |-> method, yielded |-> TRUE])
                       /\ consecutive_errors' = 0
                  ELSE IF after.then = "forward"
                  THEN /\ gpc' = "forward"
                       /\ attempt' = 0
                       /\ tiers' = TiersAfterMiss(method, e, after, done)
                       /\ UNCHANGED <<entries, outFile, gi, consecutive_errors>>
                  ELSE /\ EndOfIteration([entries EXCEPT ![gi].neighborhood = after.value])
                       /\ tiers' = TiersAfterMiss(method, e, after, done)
                       /\ consecutive_errors' = 0
        /\ UNCHANGED <<gScript, error_count, geoBackup, matchVars, enrichVars, pureVars, toolVars>>

\* the loop is inside its try block, on an entry that lacks a neighborhood
InTry ==
    /\ gpc \in {"record", "reverse", "forward"}
    /\ gi <= NumRecords
    /\ entries[gi].neighborhood = Null

\* `break` on too many consecutive errors: only the nominatim script stops,
\* the free and extracted ones reset the counter and continue
StopsOnErrors(s, n) == s = NOMINATIM /\ n >= max_consecutive_errors

\* the scripts whose loop body is a try block; the loop of fill-neighborhoods.py
\* calls get_neighborhood bare
HasTry(s) == s # GOOGLE

\* get_neighborhood raises an exception the lookups did not catch:
\* except Exception of process_json_file, or the end of the process
GeoRaise ==
    /\ InTry
    /\ IF ~HasTry(gScript)
       THEN /\ gpc' = "killed"
            /\ UNCHANGED <<entries, outFile, gi, attempt, error_count, consecutive_errors>>
       ELSE /\ error_count' = error_count + 1
            /\ IF StopsOnErrors(gScript, consecutive_errors + 1)
               THEN /\ gpc' = "stopped"
                    /\ outFile' = entries
                    /\ consecutive_errors' = consecutive_errors + 1
                    /\ UNCHANGED <<entries, gi, attempt>>
               ELSE /\ consecutive_errors' =
                          IF consecutive_errors + 1 >= max_consecutive_errors
                          THEN 0 ELSE consecutive_errors + 1
                    /\ EndOfIteration(entries)
    /\ UNCHANGED <<gScript, codes, waits, geoBackup, tiers, matchVars, enrichVars, pureVars, toolVars>>

\* the scripts whose loop has an `except KeyboardInterrupt: break`
CatchesInterrupt(s) == s \in {FREE, EXTRACTED}

\* KeyboardInterrupt while get_neighborhood runs: caught scripts break and
\* reach the final save, the nominatim script dies with the exception
GeoInterruptInLookup ==
    /\ InTry
    /\ IF CatchesInterrupt(gScript)
       THEN /\ gpc' = "interrupted"
            /\ outFile' = entries
       ELSE /\ gpc' = "killed"
            /\ UNCHANGED outFile
    /\ UNCHANGED <<entries, gScript, gi, attempt, codes, waits, error_count,
                   consecutive_errors, geoBackup, tiers, matchVars, enrichVars, pureVars, toolVars>>

\* KeyboardInterrupt anywhere else in the loop (the prints before the try
\* block, the batch save, time.sleep(delay)): nothing catches it
GeoInterruptOutsideTry ==
    /\ gpc = "record"
    /\ gi <= NumRecords
    /\ gpc' = "killed"
    /\ UNCHANGED <<entries, outFile, gScript, gi, attempt, codes, waits, error_count,
                   consecutive_errors, geoBackup, tiers, matchVars, enrichVars, pureVars, toolVars>>

\* the final save
GeoFinish ==
    /\ gpc = "record"
    /\ gi > NumRecords
    /\ outFile' = entries
    /\ gpc' = "done"
    /\ UNCHANGED <<entries, gScript, gi, attempt, codes, waits, error_count,
                   consecutive_errors, geoBackup, tiers, matchVars, enrichVars, pureVars, toolVars>>

(***************************************************************************)
(* Strings, as sequences of one-character strings.                         *)
(***************************************************************************)
\* the letters str.lower() changes
ToLower ==
    [A |-> "a", B |-> "b", C |-> "c", D |-> "d", E |-> "e", F |-> "f",
     G |-> "g", H |-> "h", I |-> "i", J |-> "j", K |-> "k", L |-> "l",
     M |-> "m", N |-> "n", O |-> "o", P |-> "p", Q |-> "q", R |-> "r",
     S |-> "s", T |-> "t", U |-> "u", V |-> "v", W |-> "w", X |-> "x",
     Y |-> "y", Z |-> "z"]

Digits == {"0", "1", "2", "3", "4", "5", "6", "7", "8", "9"}
Whitespace == {" ", "\t"}

LowerChar(c) == IF c \in DOMAIN ToLower THEN ToLower[c] ELSE c

\* str.lower()
\* the name as it is, its case kept
keep_case(str) == str

lower(str) == [i \in DOMAIN str |-> LowerChar(str[i])]

\* str.replace(old, new): every occurrence, left to right, none overlapping
RECURSIVE replace(_, _, _)
replace(str, old, new) ==
    IF Len(str) < Len(old) THEN str
    ELSE IF SubSeq(str, 1, Len(old)) = old
         THEN new \o replace(SubSeq(str, Len(old) + 1, Len(str)), old, new)
         ELSE <<Head(str)>> \o replace(Tail(str), old, new)

\* " ".join(str.split()): the words of str, one space between two of them
RECURSIVE join_split(_, _)
join_split(str, acc) ==
    IF str = <<>> THEN acc
    ELSE IF Head(str) \in Whitespace THEN join_split(Tail(str), acc)
    ELSE LET rest == Tail(str)
             sep == IF rest # <<>> /\ Head(rest) \in Whitespace
                       /\ \E i \in DOMAIN rest : rest[i] \notin Whitespace
                    THEN <<" ">> ELSE <<>>
         IN  join_split(rest, acc \o <<Head(str)>> \o sep)

\* str.strip()
RECURSIVE strip(_)
strip(str) ==
    IF str = <<>> THEN str
    ELSE IF Head(str) \in Whitespace THEN strip(Tail(str))
    ELSE IF str[Len(str)] \in Whitespace THEN strip(SubSeq(str, 1, Len(str) - 1))
    ELSE str

(***************************************************************************)
(* normalize_name of the three matchers.                                   *)
(***************************************************************************)
RESTAURANT_WORD == <<"r", "e", "s", "t", "a", "u", "r", "a", "n", "t">>
CHINESE_WORD == <<"c", "h", "i", "n", "e", "s", "e">>
BUFFET_WORD == <<"b", "u", "f", "f", "e", "t">>
AMPERSAND == <<"&">>
AND_WORD == <<"a", "n", "d">>
INC_WORD == <<"i", "n", "c">>
LLC_WORD == <<"l", "l", "c">>

\* the words normalize_name blanks out, in the order of the for loop
Words(s) ==
    IF s = MATCH_RESTAURANTS_YELP_API
    THEN <<RESTAURANT_WORD, CHINESE_WORD, BUFFET_WORD, AMPERSAND, AND_WORD, INC_WORD, LLC_WORD>>
    ELSE <<RESTAURANT_WORD, CHINESE_WORD, BUFFET_WORD, AMPERSAND, AND_WORD>>

\* a loop body that takes the word out and puts nothing in its place
remove_word(name, word) == replace(name, word, <<>>)

\* name = name.replace(word, " ")
blank_word(name, word) == replace(name, word, <<" ">>)

\* for word in [...]: name = name.replace(word, " ")
RECURSIVE ReplaceAll(_, _)
ReplaceAll(str, words) ==
    IF words = <<>> THEN str
    ELSE ReplaceAll(blank_word(str, Head(words)), Tail(words))

normalize_name(s, name) ==
    IF name = <<>> THEN <<>>
    ELSE strip(join_split(ReplaceAll(lower(name), Words(s)), <<>>))

\* normalize_phone: the digits of the phone
normalize_phone(phone) ==
    IF phone = <<>> THEN <<>>
    ELSE SelectSeq(phone, LAMBDA c : c \in Digits)

\* the names tried: up to MaxPieces pieces put end to end
MaxPieces == 3

Pieces ==
    { RESTAURANT_WORD, BUFFET_WORD, AMPERSAND, AND_WORD, INC_WORD,
      <<" ">>, <<"\t">>, <<"A">>, <<"a", "n">>, <<"d">>, <<"W", "o", "k">> }

RECURSIVE Names(_)
Names(n) ==
    IF n = 0 THEN {<<>>}
    ELSE LET shorter == Names(n - 1)
         IN  shorter \cup {a \o b : a \in shorter, b \in Pieces}

NormalizeIdle ==
    /\ nScript = MATCH_RESTAURANTS
    /\ nOnce = <<>>
    /\ nTwice = <<>>
    /\ npc = "input"

NormalizeOnce ==
    \E s \in Matchers :
        /\ npc = "input"
        /\ nScript' = s
        /\ nOnce' = normalize_name(s, nInput)
        /\ npc' = "once"
        /\ UNCHANGED <<nInput, nTwice, sTarget, sCands, sFn, sResult,
                       matchVars, enrichVars, geoVars, toolVars>>

NormalizeAgain ==
    /\ npc = "once"
    /\ nTwice' = normalize_name(nScript, nOnce)
    /\ npc' = "twice"
    /\ UNCHANGED <<nScript, nInput, nOnce, sTarget, sCands, sFn, sResult,
                   matchVars, enrichVars, geoVars, toolVars>>

(***************************************************************************)
(* The searches' choice among the candidates of one answer.  name_score is *)
(* fuzz.ratio of the two normalized names, a number in 0..100 the library  *)
(* computes; city and phone are the candidate's strings.                   *)
(***************************************************************************)
\* most candidates one answer holds
MaxCandidates == 2

AUSTIN == <<"A", "u", "s", "t", "i", "n">>
AUSTIN_UPPER == <<"A", "U", "S", "T", "I", "N">>
DALLAS == <<"D", "a", "l", "l", "a", "s">>
PHONE_PLAIN == <<"5", "5", "5", "-", "1", "2">>
PHONE_DISPLAY == <<"(", "5", "5", "5", ")", " ", "1", "2">>
PHONE_OTHER == <<"9", "9", "9", "-", "9", "9">>

NameScores == {65, 70, 71, 85, 95}
Targets == [city : {AUSTIN}, phone : {<<>>, PHONE_PLAIN}]
CandTypes == [name_score : NameScores, city : {AUSTIN_UPPER, DALLAS},
              phone : {<<>>, PHONE_DISPLAY, PHONE_OTHER}]
CandSeqs == UNION {[1..n -> CandTypes] : n \in 0..MaxCandidates}

\* best_match = None; index is the place of the candidate the dict was built
\* from (its 'id'), 0 for None
NoMatch == [index |-> 0, matchScore |-> 0, matchReason |-> <<>>]

\* city_match = city.lower() == biz_city.lower()
city_match(t, c) == lower(t.city) = lower(c.city)

\* phone_match: both phones given and their digits equal
phone_match(t, c) ==
    IF t.phone # <<>> /\ c.phone # <<>>
    THEN normalize_phone(t.phone) = normalize_phone(c.phone)
    ELSE FALSE

\* a total that takes points off for a phone match
total_score_phone_penalty(name_score, cm, pm) ==
    name_score + (IF cm THEN 10 ELSE 0) - (IF pm THEN 20 ELSE 0)

\* total_score = name_score (+ 10 if city_match) (+ 20 if phone_match)
total_score(name_score, cm, pm) ==
    name_score + (IF cm THEN 10 ELSE 0) + (IF pm THEN 20 ELSE 0)

\* reasons that keep exact_name and add high_name_similarity to it
match_reason_both_names(name_score, cm, pm) ==
    (IF cm THEN <<"city_match">> ELSE <<>>)
        \o (IF pm THEN <<"phone_match">> ELSE <<>>)
        \o (IF name_score >= 90 THEN <<"exact_name">> ELSE <<>>)
        \o (IF name_score >= 80 THEN <<"high_name_similarity">> ELSE <<>>)

\* best_match['matchReason']
match_reason(name_score, cm, pm) ==
    (IF cm THEN <<"city_match">> ELSE <<>>)
        \o (IF pm THEN <<"phone_match">> ELSE <<>>)
        \o (IF name_score >= 90 THEN <<"exact_name">>
            ELSE IF name_score >= 80 THEN <<"high_name_similarity">>
            ELSE <<>>)

\* a test that lets a later candidate of equal total take the place
ApiReplaces_OnTie(total, name_score, best_score) ==
    total >= best_score /\ name_score > 70

\* if total_score > best_score and name_score > 70
ApiReplaces(total, name_score, best_score) ==
    total > best_score /\ name_score > 70

\* the for loop of search_yelp_api from candidate k on
RECURSIVE ApiLoop(_, _, _, _, _)
ApiLoop(t, cands, k, best_match, best_score) ==
    IF k > Len(cands) THEN best_match
    ELSE LET c == cands[k]
             cm == city_match(t, c)
             pm == phone_match(t, c)
             total == total_score(c.name_score, cm, pm)
         IN  IF ApiReplaces(total, c.name_score, best_score)
             THEN ApiLoop(t, cands, k + 1,
                          [index |-> k, matchScore |-> total,
                           matchReason |-> match_reason(c.name_score, cm, pm)],
                          total)
             ELSE ApiLoop(t, cands, k + 1, best_match, best_score)

\* search_yelp_api on a 200 answer: best_match = None, best_score = 0
search_yelp_api_best(t, cands) == ApiLoop(t, cands, 1, NoMatch, 0)

\* a page's links carry a name only
PageMatch(k) == [index |-> k, matchScore |-> 0, matchReason |-> <<>>]

\* the loop of search_yelp and of the two Selenium searches:
\* if name_score > 70 and name_score > best_score
RECURSIVE BestLinkLoop(_, _, _, _)
BestLinkLoop(links, k, best_match, best_score) ==
    IF k > Len(links) THEN best_match
    ELSE IF links[k].name_score > 70 /\ links[k].name_score > best_score
         THEN BestLinkLoop(links, k + 1, PageMatch(k), links[k].name_score)
         ELSE BestLinkLoop(links, k + 1, best_match, best_score)

search_yelp(links) == BestLinkLoop(links, 1, NoMatch, 0)

\* the loop of search_tripadvisor: return at the first link above 70
RECURSIVE FirstLinkLoop(_, _)
FirstLinkLoop(links, k) ==
    IF k > Len(links) THEN NoMatch
    ELSE IF links[k].name_score > 70 THEN PageMatch(k)
    ELSE FirstLinkLoop(links, k + 1)

search_tripadvisor(links) == FirstLinkLoop(links, 1)

\* business_links[:10], restaurant_links[:10]
SeleniumLinks == 10
FirstLinks(links) ==
    SubSeq(links, 1, IF Len(links) < SeleniumLinks THEN Len(links) ELSE SeleniumLinks)

search_yelp_selenium(links) == BestLinkLoop(FirstLinks(links), 1, NoMatch, 0)
search_tripadvisor_selenium(links) == BestLinkLoop(FirstLinks(links), 1, NoMatch, 0)

ScoreIdle ==
    /\ sFn = "none"
    /\ sResult = NoMatch

Applied(fn, result) ==
    /\ sFn = "none"
    /\ sFn' = fn
    /\ sResult' = result
    /\ UNCHANGED <<sTarget, sCands, nScript, nInput, nOnce, nTwice, npc,
                   matchVars, enrichVars, geoVars, toolVars>>

ApplySearchYelpApi == Applied("search_yelp_api", search_yelp_api_best(sTarget, sCands))
ApplySearchYelp == Applied("search_yelp", search_yelp(sCands))
ApplySearchTripadvisor == Applied("search_tripadvisor", search_tripadvisor(sCands))
ApplySearchYelpSelenium == Applied("search_yelp_selenium", search_yelp_selenium(sCands))
ApplySearchTripadvisorSelenium ==
    Applied("search_tripadvisor_selenium", search_tripadvisor_selenium(sCands))

(***************************************************************************)
(* The name comparison of search_yelp_api:                                  *)
(* fuzz.ratio(normalize_name(name), normalize_name(biz_name)).              *)
(***************************************************************************)
MaxTokens == 4
MaxOtherTokens == 2

\* the length of the longest common subsequence of a and b, row by row
RECURSIVE LcsRow(_, _, _, _)
LcsRow(prev, c, b, row) ==
    LET j == Len(row) + 1
        left == IF j = 1 THEN 0 ELSE row[j - 1]
        diagonal == IF j = 1 THEN 0 ELSE prev[j - 1]
    IN  IF j > Len(b) THEN row
        ELSE LcsRow(prev, c, b,
                    Append(row, IF c = b[j] THEN diagonal + 1
                                ELSE IF prev[j] > left THEN prev[j] ELSE left))
RECURSIVE LcsRows(_, _, _, _)
LcsRows(a, b, i, prev) ==
    IF i > Len(a) THEN prev ELSE LcsRows(a, b, i + 1, LcsRow(prev, a[i], b, <<>>))
Lcs(a, b) ==
    IF b = <<>> THEN 0 ELSE LcsRows(a, b, 1, [j \in 1..Len(b) |-> 0])[Len(b)]

\* utils.intr: int(round(n / d)), halves to the even neighbour
intr(n, d) ==
    LET q == n \div d
        rest == n % d
    IN  IF 2 * rest > d THEN q + 1
        ELSE IF 2 * rest = d THEN q + (q % 2)
        ELSE q

\* fuzz.ratio(s1, s2): 100 for equal strings, 0 if one is empty, else the
\* matching characters, twice, over the two lengths, as a percentage
ratio(s1, s2) ==
    IF s1 = s2 THEN 100
    ELSE IF s1 = <<>> \/ s2 = <<>> THEN 0
    ELSE intr(100 * 2 * Lcs(s1, s2), Len(s1) + Len(s2))

name_score(name, biz_name) ==
    ratio(normalize_name(MATCH_RESTAURANTS_YELP_API, name),
          normalize_name(MATCH_RESTAURANTS_YELP_API, biz_name))

\* names as sequences of tokens with whitespace between them
Tokens == {<<"A", "B", "C">>, <<"B", "u", "f", "f", "e", "t">>, <<"&">>, <<"G", "r", "i", "l", "l">>}
OtherTokens == {<<"a", "b", "c">>, <<"g", "r", "i", "l", "l">>, <<"a", "n", "d">>}
Gaps == {<<" ">>, <<" ", "\t", " ">>}

\* the sequences of up to n different tokens
TokenSeqs(tokens, n) ==
    {q \in UNION {[1..k -> tokens] : k \in 1..n} :
        \A i, j \in DOMAIN q : i # j => q[i] # q[j]}

RECURSIVE Joined(_, _)
Joined(q, gap) ==
    IF Len(q) = 1 THEN q[1] ELSE q[1] \o gap \o Joined(Tail(q), gap)

TokenNames(tokens, gap, n) == {Joined(q, gap) : q \in TokenSeqs(tokens, n)}

BuffetNames == TokenNames(Tokens, <<" ">>, MaxTokens)
BusinessNames == UNION {TokenNames(OtherTokens, gap, MaxOtherTokens) : gap \in Gaps}

CompareNames ==
    /\ simpc = "input"
    /\ simScore' = name_score(simA, simB)
    /\ simpc' = "scored"
    /\ UNCHANGED <<simA, simB>>
    /\ UNCHANGED <<matchVars, enrichVars, geoVars, pureVars, monVars, jsonVars, repairVars, extraVars>>

(***************************************************************************)
(* The progress monitors: monitor-matching.py, monitor-all-progress.py on   *)
(* data/restaurant-mapping.json, monitor-yelp-details-progress.py on        *)
(* Example JSON/yelp-restaurant-mapping.json.  One action is one run.       *)
(***************************************************************************)
MONITOR_MATCHING == "monitor-matching.py"
MONITOR_ALL_PROGRESS == "monitor-all-progress.py"
MONITOR_YELP_DETAILS == "monitor-yelp-details-progress.py"

NoReport == [monitor |-> "none", outcome |-> "none", total |-> 0, processed |-> 0, matched |-> 0]

\* a file after open(path, 'w') and nothing else
opened_for_writing(file) == [state |-> "partial", data |-> file.data]

\* a file after `with open(path, 'r') as f: json.load(f)`
opened_for_reading(file) == file

\* the matching input after `with open(input_file, 'r') as f: json.load(f)`
read_input(input) == input

Count(S) == Cardinality(S)

\* check_progress of monitor-matching.py and of monitor-all-progress.py
check_progress(monitor, file, input) ==
    LET total_restaurants == Count(DOMAIN input)
        processed_entries == Count({i \in Ids : file.data[i].present})
        matched == Count({i \in Ids : file.data[i].present /\ Truthy(file.data[i].yelp)})
        remaining == total_restaurants - processed_entries
    IN  IF file.state = "absent"
        THEN [monitor |-> monitor, outcome |-> "not_started", total |-> total_restaurants,
              processed |-> 0, matched |-> 0]
        ELSE IF ~Parseable(file)
        THEN [monitor |-> monitor, outcome |-> "raised", total |-> total_restaurants,
              processed |-> 0, matched |-> 0]
        ELSE [monitor |-> monitor,
              outcome |-> IF remaining <= 0 THEN "done" ELSE "running",
              total |-> total_restaurants, processed |-> processed_entries, matched |-> matched]

\* check_progress of monitor-yelp-details-progress.py
check_details_progress(file) ==
    LET yelp_restaurants == {i \in Ids : file.data[i].yelp}
        has_details == Count({i \in yelp_restaurants : HasDetails(file.data[i])})
        total == Count(yelp_restaurants)
    IN  IF file.state = "absent"
        THEN [monitor |-> MONITOR_YELP_DETAILS, outcome |-> "not_found", total |-> 0,
              processed |-> 0, matched |-> 0]
        ELSE IF file.state = "partial"
        THEN [monitor |-> MONITOR_YELP_DETAILS, outcome |-> "raised", total |-> 0,
              processed |-> 0, matched |-> 0]
        ELSE [monitor |-> MONITOR_YELP_DETAILS,
              outcome |-> IF total - has_details = 0 THEN "done" ELSE "running",
              total |-> total, processed |-> has_details, matched |-> total]

\* the mapping files a monitor can find: none, one cut short, or one a
\* matcher wrote
MonitorEntries ==
    {NoEntry, NewEntry,
     [present |-> TRUE, yelp |-> "y1", tripadvisor |-> Null],
     [present |-> TRUE, yelp |-> Null, tripadvisor |-> "t1"]}
MonitorFiles ==
    {[state |-> "absent", data |-> EmptyMapping], TornSave(EmptyMapping)}
        \cup {Save(m) : m \in [Ids -> MonitorEntries]}

MonitorIdle == mReport = NoReport

MonitorMatching ==
    /\ mReport = NoReport
    /\ mReport' = check_progress(MONITOR_MATCHING, mappingFile, buffets)
    /\ mappingFile' = opened_for_reading(mappingFile)
    /\ buffets' = read_input(buffets)
    /\ UNCHANGED <<yelpFile, script, pc, mapping, idx, calls, lastStatus, attempts, trace>>
    /\ UNCHANGED <<backupFile, eScript, epc, data, todo, pos, batch_size, processed,
                   errors, successful, failed, credits_used, out_of_credits, eStatus>>
    /\ UNCHANGED <<geoVars, pureVars, simVars, jsonVars, repairVars, extraVars>>

MonitorAllProgress ==
    /\ mReport = NoReport
    /\ mReport' = check_progress(MONITOR_ALL_PROGRESS, mappingFile, buffets)
    /\ mappingFile' = opened_for_reading(mappingFile)
    /\ buffets' = read_input(buffets)
    /\ UNCHANGED <<yelpFile, script, pc, mapping, idx, calls, lastStatus, attempts, trace>>
    /\ UNCHANGED <<backupFile, eScript, epc, data, todo, pos, batch_size, processed,
                   errors, successful, failed, credits_used, out_of_credits, eStatus>>
    /\ UNCHANGED <<geoVars, pureVars, simVars, jsonVars, repairVars, extraVars>>

MonitorYelpDetails ==
    /\ mReport = NoReport
    /\ mReport' = check_details_progress(yelpFile)
    /\ yelpFile' = opened_for_reading(yelpFile)
    /\ UNCHANGED <<mappingFile, buffets, script, pc, mapping, idx, calls, lastStatus, attempts, trace>>
    /\ UNCHANGED <<backupFile, eScript, epc, data, todo, pos, batch_size, processed,
                   errors, successful, failed, credits_used, out_of_credits, eStatus>>
    /\ UNCHANGED <<geoVars, pureVars, simVars, jsonVars, repairVars, extraVars>>

(***************************************************************************)
(* JSON: values, json.dump(..., indent=2, ensure_ascii=False) and           *)
(* json.loads, on texts that are sequences of one-character strings.        *)
(* A value is a record tagged by its type: null, a number, a string, an     *)
(* array (list) or an object (dict, its members in insertion order).        *)
(***************************************************************************)
JNull == [t |-> "null"]
JNum(n) == [t |-> "num", num |-> n]
\* a float with one decimal digit, as Yelp's ratings are (4.5, 4.0)
JFloat(whole, tenth) == [t |-> "float", whole |-> whole, tenth |-> tenth]
JStr(chars) == [t |-> "str", str |-> chars]
JArr(items) == [t |-> "arr", arr |-> items]
JObj(members) == [t |-> "obj", obj |-> members]
Member(key, value) == [k |-> key, v |-> value]

QUOTE == "\""
BACKSLASH == "\\"
NEWLINE == "\n"
JsonWhitespace == {" ", "\t", "\n", "\r"}
NULL_LITERAL == <<"n", "u", "l", "l">>
DigitChars == <<"0", "1", "2", "3", "4", "5", "6", "7", "8", "9">>

\* str(n) of a natural number
RECURSIVE DigitsOf(_)
DigitsOf(n) ==
    IF n < 10 THEN <<DigitChars[n + 1]>>
    ELSE DigitsOf(n \div 10) \o <<DigitChars[(n % 10) + 1]>>

DigitValue(c) == CHOOSE d \in 0..9 : DigitChars[d + 1] = c

\* a string body written as it is, quotes and backslashes included
escape_nothing(chars) == chars

\* the body of a string literal: a quote and a backslash get a backslash
RECURSIVE escape(_)
escape(chars) ==
    IF chars = <<>> THEN <<>>
    ELSE (IF Head(chars) \in {QUOTE, BACKSLASH} THEN <<BACKSLASH, Head(chars)>>
          ELSE <<Head(chars)>>) \o escape(Tail(chars))

dump_string(chars) == <<QUOTE>> \o escape(chars) \o <<QUOTE>>

RECURSIVE Spaces(_)
Spaces(n) == IF n = 0 THEN <<>> ELSE <<" ">> \o Spaces(n - 1)

\* json.dumps(value, indent=2) at nesting depth `depth`
RECURSIVE dumps(_, _)
RECURSIVE DumpItems(_, _, _)
RECURSIVE DumpMembers(_, _, _)
DumpItems(items, k, depth) ==
    IF k > Len(items) THEN <<>>
    ELSE (IF k > 1 THEN <<",">> ELSE <<>>) \o <<NEWLINE>> \o Spaces(2 * (depth + 1))
            \o dumps(items[k], depth + 1) \o DumpItems(items, k + 1, depth)
DumpMembers(members, k, depth) ==
    IF k > Len(members) THEN <<>>
    ELSE (IF k > 1 THEN <<",">> ELSE <<>>) \o <<NEWLINE>> \o Spaces(2 * (depth + 1))
            \o dump_string(members[k].k) \o <<":", " ">>
            \o dumps(members[k].v, depth + 1) \o DumpMembers(members, k + 1, depth)
dumps(value, depth) ==
    IF value.t = "null" THEN NULL_LITERAL
    ELSE IF value.t = "num" THEN DigitsOf(value.num)
    ELSE IF value.t = "float" THEN DigitsOf(value.whole) \o <<".">> \o DigitsOf(value.tenth)
    ELSE IF value.t = "str" THEN dump_string(value.str)
    ELSE IF value.t = "arr"
    THEN IF value.arr = <<>> THEN <<"[", "]">>
         ELSE <<"[">> \o DumpItems(value.arr, 1, depth) \o <<NEWLINE>>
                 \o Spaces(2 * depth) \o <<"]">>
    ELSE IF value.obj = <<>> THEN <<"{", "}">>
         ELSE <<"{">> \o DumpMembers(value.obj, 1, depth) \o <<NEWLINE>>
                 \o Spaces(2 * depth) \o <<"}">>

json_dump(value) == dumps(value, 0)

\* the scanner of json.loads.  A result is [ok, val, i]: whether a value
\* was read, the value, and the index after it.
ParseError == [ok |-> FALSE, val |-> JNull, i |-> 0]
Parsed(value, next) == [ok |-> TRUE, val |-> value, i |-> next]

RECURSIVE SkipWhitespace(_, _)
SkipWhitespace(text, i) ==
    IF i <= Len(text) /\ text[i] \in JsonWhitespace THEN SkipWhitespace(text, i + 1) ELSE i

\* the body of a string literal from index i on, the opening quote read
RECURSIVE ParseString(_, _, _)
ParseString(text, i, acc) ==
    IF i > Len(text) THEN ParseError
    ELSE IF text[i] = QUOTE THEN Parsed(JStr(acc), i + 1)
    ELSE IF text[i] = BACKSLASH
    THEN IF i + 1 <= Len(text) /\ text[i + 1] \in {QUOTE, BACKSLASH}
         THEN ParseString(text, i + 2, Append(acc, text[i + 1]))
         ELSE ParseError
    ELSE IF text[i] \in {"\n", "\t", "\r"} THEN ParseError
    ELSE ParseString(text, i + 1, Append(acc, text[i]))

RECURSIVE ParseNumber(_, _, _)
ParseNumber(text, i, acc) ==
    IF i <= Len(text) /\ \E d \in DOMAIN DigitChars : DigitChars[d] = text[i]
    THEN ParseNumber(text, i + 1, 10 * acc + DigitValue(text[i]))
    ELSE Parsed(JNum(acc), i)

RECURSIVE ParseValue(_, _)
RECURSIVE ParseItems(_, _, _)
RECURSIVE ParseMembers(_, _, _)
ParseItems(text, i, acc) ==
    LET item == ParseValue(text, i)
        j == SkipWhitespace(text, item.i)
    IN  IF ~item.ok \/ j > Len(text) THEN ParseError
        ELSE IF text[j] = "," THEN ParseItems(text, j + 1, Append(acc, item.val))
        ELSE IF text[j] = "]" THEN Parsed(JArr(Append(acc, item.val)), j + 1)
        ELSE ParseError
ParseMembers(text, i, acc) ==
    LET j == SkipWhitespace(text, i)
        key == IF j <= Len(text) /\ text[j] = QUOTE
               THEN ParseString(text, j + 1, <<>>) ELSE ParseError
        colon == SkipWhitespace(text, key.i)
        value == IF key.ok /\ colon <= Len(text) /\ text[colon] = ":"
                 THEN ParseValue(text, colon + 1) ELSE ParseError
        next == SkipWhitespace(text, value.i)
        members == Append(acc, Member(key.val.str, value.val))
    IN  IF ~value.ok \/ next > Len(text) THEN ParseError
        ELSE IF text[next] = "," THEN ParseMembers(text, next + 1, members)
        ELSE IF text[next] = "}" THEN Parsed(JObj(members), next + 1)
        ELSE ParseError
ParseValue(text, i0) ==
    LET i == SkipWhitespace(text, i0)
    IN  IF i > Len(text) THEN ParseError
        ELSE IF text[i] = QUOTE THEN ParseString(text, i + 1, <<>>)
        ELSE IF text[i] = "["
        THEN LET j == SkipWhitespace(text, i + 1)
             IN  IF j <= Len(text) /\ text[j] = "]" THEN Parsed(JArr(<<>>), j + 1)
                 ELSE ParseItems(text, j, <<>>)
        ELSE IF text[i] = "{"
        THEN LET j == SkipWhitespace(text, i + 1)
             IN  IF j <= Len(text) /\ text[j] = "}" THEN Parsed(JObj(<<>>), j + 1)
                 ELSE ParseMembers(text, j, <<>>)
        ELSE IF \E d \in DOMAIN DigitChars : DigitChars[d] = text[i]
        THEN LET n == ParseNumber(text, i, 0)
             IN  IF /\ n.i + 1 <= Len(text)
                    /\ text[n.i] = "."
                    /\ \E d \in DOMAIN DigitChars : DigitChars[d] = text[n.i + 1]
                 THEN Parsed(JFloat(n.val.num, DigitValue(text[n.i + 1])), n.i + 2)
                 ELSE n
        ELSE IF i + 3 <= Len(text) /\ SubSeq(text, i, i + 3) = NULL_LITERAL
        THEN Parsed(JNull, i + 4)
        ELSE ParseError

\* json.loads(text): one value and nothing but whitespace after it
json_loads(text) ==
    LET value == ParseValue(text, 1)
    IN  IF value.ok /\ SkipWhitespace(text, value.i) > Len(text) THEN value ELSE ParseError

(***************************************************************************)
(* The mapping of match-restaurants-yelp-api.py saved to and loaded from   *)
(* restaurant-mapping.json.                                                 *)
(***************************************************************************)
MaxMappingEntries == 2

KEY_BUFFET_ID == <<"b", "u", "f", "f", "e", "t", "I", "d">>
KEY_BUFFET_NAME == <<"b", "u", "f", "f", "e", "t", "N", "a", "m", "e">>
KEY_PHONE == <<"p", "h", "o", "n", "e">>
KEY_YELP == <<"y", "e", "l", "p">>
KEY_TRIPADVISOR == <<"t", "r", "i", "p", "a", "d", "v", "i", "s", "o", "r">>
KEY_ID == <<"i", "d">>
KEY_NAME == <<"n", "a", "m", "e">>
KEY_URL == <<"u", "r", "l">>
KEY_RATING == <<"r", "a", "t", "i", "n", "g">>
KEY_PRICE == <<"p", "r", "i", "c", "e">>
KEY_CATEGORIES == <<"c", "a", "t", "e", "g", "o", "r", "i", "e", "s">>
KEY_MATCH_SCORE == <<"m", "a", "t", "c", "h", "S", "c", "o", "r", "e">>
KEY_MATCH_REASON == <<"m", "a", "t", "c", "h", "R", "e", "a", "s", "o", "n">>

PLAIN_NAME == <<"W", "o", "k">>
\* a name with a quote and a backslash in it
QUOTED_NAME == <<"A", " ", "\"", "B", "\"", " ", "\\", "C">>
CITY_MATCH == <<"c", "i", "t", "y", "_", "m", "a", "t", "c", "h">>
EXACT_NAME == <<"e", "x", "a", "c", "t", "_", "n", "a", "m", "e">>

\* best_match of search_yelp_api: every slot filled, or the optional ones
\* empty
YelpMatches ==
    {JObj(<<Member(KEY_ID, JStr(<<"y", "1">>)),
            Member(KEY_NAME, JStr(name)),
            Member(KEY_RATING, rating),
            Member(KEY_PRICE, price),
            Member(KEY_CATEGORIES, categories),
            Member(KEY_MATCH_SCORE, JNum(score)),
            Member(KEY_MATCH_REASON, reasons)>>) :
        name \in {QUOTED_NAME},
        rating \in {JFloat(4, 5)},
        price \in {JNull},
        categories \in {JArr(<<>>)},
        score \in {95},
        reasons \in {JArr(<<>>), JArr(<<JStr(CITY_MATCH), JStr(EXACT_NAME)>>)}}

TripadvisorMatches ==
    {JObj(<<Member(KEY_URL, JStr(<<"/", "t">>)), Member(KEY_MATCH_SCORE, JNum(7))>>)}

\* mapping[buffet_id] for the buffet with id `id`
MappingEntries(id) ==
    {JObj(<<Member(KEY_BUFFET_ID, JStr(id)),
            Member(KEY_BUFFET_NAME, JStr(name)),
            Member(KEY_PHONE, phone),
            Member(KEY_YELP, yelp),
            Member(KEY_TRIPADVISOR, tripadvisor)>>) :
        name \in {PLAIN_NAME, QUOTED_NAME},
        phone \in {JNull},
        yelp \in {JNull} \cup YelpMatches,
        tripadvisor \in {JNull} \cup TripadvisorMatches}

\* the mappings with the first n buffets in them
RECURSIVE Mappings(_)
Mappings(n) ==
    IF n = 0 THEN {<<>>}
    ELSE {Append(members, Member(DigitsOf(n), entry)) :
            members \in Mappings(n - 1), entry \in MappingEntries(DigitsOf(n))}

JsonMappings == UNION {{JObj(members) : members \in Mappings(n)} : n \in 0..MaxMappingEntries}

\* with open(mapping_file, 'w') as f: json.dump(mapping, f, indent=2, ...)
JsonSave ==
    /\ jpc = "value"
    /\ jText' = json_dump(jValue)
    /\ jpc' = "saved"
    /\ UNCHANGED <<jValue, jLoaded>>
    /\ UNCHANGED <<matchVars, enrichVars, geoVars, pureVars, monVars, simVars, repairVars, extraVars>>

\* with open(mapping_file, 'r') as f: mapping = json.load(f)
JsonLoad ==
    /\ jpc = "saved"
    /\ LET loaded == json_loads(jText)
       IN  /\ jLoaded' = loaded.val
           /\ jpc' = IF loaded.ok THEN "loaded" ELSE "raised"
    /\ UNCHANGED <<jValue, jText>>
    /\ UNCHANGED <<matchVars, enrichVars, geoVars, pureVars, monVars, simVars, repairVars, extraVars>>

NoOutput == [written |-> FALSE, text |-> <<>>]

(***************************************************************************)
(* repair-json-advanced.py: repair_json_advanced on the text of a file.     *)
(***************************************************************************)
NumElements == 2
\* the cut points' step (100 characters in the program, for entries of a
\* few thousand characters) and the window they cover (10000 characters),
\* scaled to the elements of this model
CutStep == 3
CutWindow == 300

\* str.rstrip()
RECURSIVE rstrip(_)
rstrip(text) ==
    IF text # <<>> /\ text[Len(text)] \in JsonWhitespace
    THEN rstrip(SubSeq(text, 1, Len(text) - 1)) ELSE text

\* str.rstrip(',')
RECURSIVE rstrip_commas(_)
rstrip_commas(text) ==
    IF text # <<>> /\ text[Len(text)] = ","
    THEN rstrip_commas(SubSeq(text, 1, Len(text) - 1)) ELSE text

\* re.sub(r',\s*$', '', text)
RECURSIVE FirstTrailingComma(_, _)
FirstTrailingComma(text, i) ==
    IF i > Len(text) THEN 0
    ELSE IF text[i] = "," /\ \A k \in (i + 1)..Len(text) : text[k] \in JsonWhitespace
    THEN i ELSE FirstTrailingComma(text, i + 1)
remove_trailing_comma(text) ==
    LET i == FirstTrailingComma(text, 1)
    IN  IF i = 0 THEN text ELSE SubSeq(text, 1, i - 1)

\* str.count(c)
count(text, c) == Cardinality({k \in DOMAIN text : text[k] = c})

\* c * n, empty when n is not positive
RECURSIVE Repeat(_, _)
Repeat(c, n) == IF n <= 0 THEN <<>> ELSE <<c>> \o Repeat(c, n - 1)

\* the first parse is left out
direct_parse_skipped(content) == ParseError

\* try: data = json.loads(content)
direct_parse(content) == json_loads(content)

\* a cut text, the closers counted for it and what json.loads made of the
\* text with the closers appended
Attempt(test_content, open_braces, open_brackets, parsed) ==
    [text |-> test_content, braces |-> open_braces, brackets |-> open_brackets,
     ok |-> parsed.ok, data |-> parsed.val]

Closed(test_content, open_braces, open_brackets) ==
    Attempt(test_content, open_braces, open_brackets,
            json_loads(test_content \o <<NEWLINE>> \o Repeat("}", open_braces)
                          \o Repeat("]", open_brackets)))

\* the text with its openers counted, then its trailing commas stripped
CountAndClose(cut) ==
    Closed(rstrip_commas(cut), count(cut, "{") - count(cut, "}"),
           count(cut, "[") - count(cut, "]"))

\* one cut point of the loop: the text up to it closed and parsed
CutAttempt(content, cut_pos) ==
    CountAndClose(remove_trailing_comma(rstrip(SubSeq(content, 1, cut_pos))))

\* for offset in range(0, min(10000, error_pos), 100): the attempts made
\* up to the first that gives a list with an element in it
RECURSIVE CutLoop(_, _, _)
CutStepDone(content, offset, tries, tried) ==
    IF tried.ok /\ tried.data.t = "arr" /\ Len(tried.data.arr) > 0
    THEN [found |-> TRUE, data |-> tried.data, tries |-> Append(tries, tried)]
    ELSE CutLoop(content, offset + CutStep, Append(tries, tried))
CutLoop(content, offset, tries) ==
    IF offset >= (IF CutWindow < Len(content) THEN CutWindow ELSE Len(content))
    THEN [found |-> FALSE, data |-> JNull, tries |-> tries]
    ELSE CutStepDone(content, offset, tries, CutAttempt(content, Len(content) - offset))

\* the alternative method: whole lines dropped from the end down to one
\* that ends in '}', ']' or ','
RECURSIVE LastNewline(_, _)
LastNewline(text, i) ==
    IF i = 0 THEN 0 ELSE IF text[i] = NEWLINE THEN i ELSE LastNewline(text, i - 1)
LastLine(text) == SubSeq(text, LastNewline(text, Len(text)) + 1, Len(text))
LineComplete(line) ==
    LET stripped == rstrip(line)
    IN  stripped # <<>> /\ stripped[Len(stripped)] \in {"}", "]", ","}
RECURSIVE DropLines(_)
DropLines(text) ==
    IF LineComplete(LastLine(text)) THEN [found |-> TRUE, text |-> text]
    ELSE IF LastNewline(text, Len(text)) = 0 THEN [found |-> FALSE, text |-> text]
    ELSE DropLines(SubSeq(text, 1, LastNewline(text, Len(text)) - 1))
KeptLines(stripped, dropped) == IF dropped.found THEN dropped.text ELSE stripped
AlternativeClose(test_content) ==
    Closed(test_content, count(test_content, "{") - count(test_content, "}"),
           count(test_content, "[") - count(test_content, "]"))
DropIncompleteLines(stripped) == KeptLines(stripped, DropLines(stripped))
Alternative(content) ==
    AlternativeClose(remove_trailing_comma(DropIncompleteLines(rstrip(content))))

\* `if best_data:` of a parsed value
truthy(value) ==
    IF value.t = "arr" THEN value.arr # <<>>
    ELSE IF value.t = "obj" THEN value.obj # <<>>
    ELSE IF value.t = "str" THEN value.str # <<>>
    ELSE IF value.t = "num" THEN value.num # 0
    ELSE IF value.t = "float" THEN value.whole # 0 \/ value.tenth # 0
    ELSE FALSE

\* the output file written and read back: return True if it parses
WriteAndVerify(tries, best_data, written) ==
    [result |-> IF json_loads(written).ok THEN "repaired" ELSE "failed",
     tries |-> tries, data |-> best_data, output |-> [written |-> TRUE, text |-> written]]

\* `if best_data:` and what follows it
WriteBest(tries, best_data) ==
    IF ~truthy(best_data)
    THEN [result |-> "failed", tries |-> tries, data |-> best_data, output |-> NoOutput]
    ELSE WriteAndVerify(tries, best_data, json_dump(best_data))

\* `if best_data is None:` and what follows it
AfterLoop(loop, alternative) ==
    IF loop.found THEN WriteBest(loop.tries, loop.data)
    ELSE IF ~alternative.ok
    THEN [result |-> "failed", tries |-> Append(loop.tries, alternative), data |-> JNull,
          output |-> NoOutput]
    ELSE WriteBest(Append(loop.tries, alternative), alternative.data)

AfterDirectParse(content, direct) ==
    IF direct.ok
    THEN [result |-> "valid", tries |-> <<>>, data |-> direct.val, output |-> NoOutput]
    ELSE AfterLoop(CutLoop(content, 0, <<>>), Alternative(content))

\* repair_json_advanced(input_file, output_file) on a file with this text:
\* "valid" and "repaired" are return True, "failed" is return False
repair_json_advanced(content) == AfterDirectParse(content, direct_parse(content))

\* the elements of the array in the file: flat entries, an entry with a
\* brace inside a string
ElementShapes ==
    {JObj(<<Member(<<"a">>, JNum(1))>>),
     JObj(<<Member(<<"a">>, JNum(1)), Member(<<"b">>, JStr(<<"x">>))>>),
     JObj(<<Member(<<"a">>, JStr(<<"{">>))>>)}

ElementArrays == [1..NumElements -> ElementShapes]

\* the file as it was written, or cut short anywhere
Truncations(text) == {SubSeq(text, 1, n) : n \in 0..Len(text)}

RepairRun ==
    /\ rResult = "none"
    /\ \E run \in {repair_json_advanced(rInput)} :
           /\ rResult' = run.result
           /\ rTries' = run.tries
           /\ rData' = run.data
           /\ rOutput' = run.output
    /\ UNCHANGED <<rOriginal, rInput>>
    /\ UNCHANGED <<matchVars, enrichVars, geoVars, pureVars, monVars, simVars, jsonVars, extraVars>>


(***************************************************************************)
(* parse_neighborhood_from_address of fill-neighborhoods-free.py and of    *)
(* fill-neighborhoods-extracted.py: the string parse of get_neighborhood.  *)
(***************************************************************************)
UpperLetters == DOMAIN ToLower
LowerLetters == {ToLower[c] : c \in DOMAIN ToLower}

\* address.replace(', USA', '')
COUNTRY_SUFFIX == <<",", " ", "U", "S", "A">>

\* str.split(','): piece is the part read since the last comma
RECURSIVE split_commas(_, _)
split_commas(str, piece) ==
    IF str = <<>> THEN <<piece>>
    ELSE IF Head(str) = "," THEN <<piece>> \o split_commas(Tail(str), <<>>)
    ELSE split_commas(Tail(str), Append(piece, Head(str)))

\* str.split(): the words between runs of whitespace
RECURSIVE split_whitespace(_, _)
split_whitespace(str, word) ==
    IF str = <<>> THEN (IF word = <<>> THEN <<>> ELSE <<word>>)
    ELSE IF Head(str) \in Whitespace
         THEN (IF word = <<>> THEN <<>> ELSE <<word>>) \o split_whitespace(Tail(str), <<>>)
    ELSE split_whitespace(Tail(str), Append(word, Head(str)))

\* parts = [p.strip() for p in address_clean.split(',')]
StripAll(pieces) == [k \in DOMAIN pieces |-> strip(pieces[k])]

\* re.match(r'^[A-Z]{2}$', s)
IsStateCode(str) == Len(str) = 2 /\ str[1] \in UpperLetters /\ str[2] \in UpperLetters

\* re.match(r'^\d{5}', s)
StartsWithZip(str) == Len(str) >= 5 /\ \A k \in 1..5 : str[k] \in Digits

\* sub in str
Contains(str, sub) ==
    \E k \in 0..(Len(str) - Len(sub)) : SubSeq(str, k + 1, k + Len(sub)) = sub

\* str.isalpha()
isalpha(str) == str # <<>> /\ \A k \in DOMAIN str : str[k] \in UpperLetters \cup LowerLetters

neighborhood_indicators ==
    {<<"H", "e", "i", "g", "h", "t", "s">>,
     <<"P", "a", "r", "k">>,
     <<"S", "q", "u", "a", "r", "e">>,
     <<"V", "i", "l", "l", "a", "g", "e">>,
     <<"H", "i", "l", "l", "s">>,
     <<"B", "e", "a", "c", "h">>,
     <<"B", "a", "y">>,
     <<"N", "o", "r", "t", "h">>,
     <<"S", "o", "u", "t", "h">>,
     <<"E", "a", "s", "t">>,
     <<"W", "e", "s", "t">>,
     <<"C", "e", "n", "t", "r", "a", "l">>}

NoNeighborhood == [found |-> FALSE, value |-> <<>>]
Neighborhood(str) == [found |-> TRUE, value |-> str]

\* the tests on potential_neighborhood, other being the city (free) or the
\* state (extracted) the candidate must differ from
Candidate(potential, other) ==
    IF potential = <<>> THEN NoNeighborhood
    ELSE IF IsStateCode(potential) \/ StartsWithZip(potential) THEN NoNeighborhood
    ELSE IF other # <<>> /\ lower(potential) = lower(other) THEN NoNeighborhood
    ELSE IF Len(split_whitespace(potential, <<>>)) <= 3 /\ potential[1] \in UpperLetters
    THEN IF \E indicator \in neighborhood_indicators : Contains(potential, indicator)
         THEN Neighborhood(potential)
         ELSE IF Len(split_whitespace(potential, <<>>)) = 1 /\ isalpha(potential)
         THEN Neighborhood(potential)
         ELSE NoNeighborhood
    ELSE NoNeighborhood

\* if len(parts) >= 3: potential_neighborhood = parts[1]
SecondPart(parts, other) ==
    IF Len(parts) >= 3 THEN Candidate(parts[2], other) ELSE NoNeighborhood

parse_neighborhood_from_address(address, other) ==
    IF address = <<>> THEN NoNeighborhood
    ELSE SecondPart(StripAll(split_commas(strip(replace(address, COUNTRY_SUFFIX, <<>>)), <<>>)),
                    other)

\* the pieces addresses are made of
STREET == <<"1", " ", "E", "l", "m">>
AUSTIN_TOWN == <<"A", "u", "s", "t", "i", "n">>
SecondPieces ==
    {<<"S", "o", "H", "o">>,
     <<"N", "Y">>,
     <<"7", "8", "7", "0", "1">>,
     <<"7", "8", "7", "0", "1", " ", "X">>,
     <<"O", "l", "d", " ", "T", "o", "w", "n">>,
     <<"N", "o", "r", "t", "h", " ", "L", "o", "o", "p">>,
     <<"E", "a", "s", "t", "e", "r", "n", " ", "A", "v", "e">>,
     <<"A", "u", "s", "t", "i", "n">>,
     <<"a", "u", "s", "t", "i", "n">>,
     <<"E", " ", "5", " ", "P", "a", "r", "k", " ", "R", "o", "w">>,
     <<"B", "2">>,
     <<"W", "e", "s", "t">>}
LaterPieces ==
    {<<"A", "u", "s", "t", "i", "n">>,
     <<"T", "X">>,
     <<"U", "S", "A">>,
     <<"U", "S", "A", "F", " ", "B", "a", "s", "e">>}

\* the most comma-separated pieces of an address
MaxParts == 4

RECURSIVE Tails(_)
Tails(n) ==
    IF n = 0 THEN {<<>>}
    ELSE Tails(n - 1) \cup {<<t>> \o q : t \in LaterPieces, q \in {r \in Tails(n - 1) : Len(r) = n - 1}}

\* street, a second piece, then up to MaxParts - 2 more
Addresses ==
    {Joined(<<STREET, second>> \o rest, <<",", " ">>) :
        second \in SecondPieces, rest \in Tails(MaxParts - 2)}

ParseIdle ==
    /\ pResult = NoNeighborhood
    /\ ppc = "input"

ParseAddress ==
    /\ ppc = "input"
    /\ pResult' = parse_neighborhood_from_address(pAddress, pOther)
    /\ ppc' = "parsed"
    /\ UNCHANGED <<pScript, pAddress, pOther, watchVars, scrapeVars, orderVars>>
    /\ UNCHANGED <<matchVars, enrichVars, geoVars, pureVars, monVars, simVars, jsonVars, repairVars>>

(***************************************************************************)
(* A progress monitor run again and again while a matcher runs.  The       *)
(* matcher's save is two steps for an observer: open(mapping_file, 'w')    *)
(* truncates the file, json.dump then writes the document.                 *)
(***************************************************************************)
\* the loop body up to open(mapping_file, 'w'): entry, searches, truncation
WatchedIteration ==
    /\ pc = "loop"
    /\ idx < NumRecords
    /\ ~Skips(script, mapping, idx + 1)
    /\ buffets[idx + 1]
    /\ \E ry \in YelpResponses(script), rt \in TaResponses(script) :
          /\ mapping' = Iter(script, mapping, idx + 1, ry, rt)
          /\ lastStatus' = IterStatus(script, mapping, idx + 1, ry, rt)
          /\ trace' = IterEvents(script, mapping, idx + 1, ry, rt)
    /\ calls' = calls + IterCalls(script, mapping, idx + 1)
    /\ attempts' = IF SearchesYelp(script, WithEntry(mapping, idx + 1), idx + 1) THEN 1 ELSE 0
    /\ mappingFile' = TornSave(mapping')
    /\ pc' = "saving"
    /\ UNCHANGED <<buffets, script, idx, enrichVars, geoVars, pureVars, toolVars>>

\* json.dump(mapping, f) and the end of the with block
WatchedDump ==
    /\ pc = "saving"
    /\ mappingFile' = Save(mapping)
    /\ idx' = idx + 1
    /\ pc' = "loop"
    /\ UNCHANGED <<buffets, script, mapping, calls, lastStatus, attempts, trace,
                   enrichVars, geoVars, pureVars, toolVars>>

\* the one matching run that is watched
WatchedStart == pc = "idle" /\ StartRun

\* monitor-matching.py or monitor-all-progress.py, at any moment
Watch ==
    /\ \E monitor \in {MONITOR_MATCHING, MONITOR_ALL_PROGRESS} :
          mReport' = check_progress(monitor, mappingFile, buffets)
    /\ mEarlier' = IF mReport.outcome \in {"running", "done"} THEN mReport.processed
                   ELSE mEarlier
    /\ UNCHANGED <<matchVars, enrichVars, geoVars, pureVars, simVars, jsonVars, repairVars, scrapeVars, parseVars, orderVars>>

WatchIdle == mEarlier = -1

(***************************************************************************)
(* scrape-yelp.py scrape_yelp_from_mapping and scrape-tripadvisor.py       *)
(* scrape_tripadvisor_from_mapping: one output file per scraped record.    *)
(***************************************************************************)
SCRAPE_YELP == "scrape-yelp.py"
SCRAPE_TRIPADVISOR == "scrape-tripadvisor.py"

\* --batch (default 10), scaled to the model's input
MaxScrapeBatch == 2

\* the filtered list of a mapping file, in the order of the file
ScrapeLists == {SelectSeq(IdSeq, LAMBDA i : i \in S) : S \in SUBSET Ids}

ScrapeIdle ==
    /\ scrpc = "idle"
    /\ scrBefore = {}
    /\ scrBatch = 1
    /\ scrPos = 0
    /\ scrProcessed = 0
    /\ scrFetched = <<>>

\* the function is called: processed = 0, the loop starts
ScrapeStart ==
    /\ scrpc # "loop"
    /\ \E b \in 1..MaxScrapeBatch : scrBatch' = b
    /\ scrpc' = "loop"
    /\ scrBefore' = scrFiles
    /\ scrPos' = 0
    /\ scrProcessed' = 0
    /\ scrFetched' = <<>>
    /\ UNCHANGED <<scrScript, scrList, scrFiles, watchVars, parseVars, orderVars>>
    /\ UNCHANGED <<matchVars, enrichVars, geoVars, pureVars, monVars, simVars, jsonVars, repairVars>>

\* "Skip if already scraped": processed += 1, continue
ScrapeSkip ==
    /\ scrpc = "loop"
    /\ scrPos < Len(scrList)
    /\ scrList[scrPos + 1] \in scrFiles
    /\ scrProcessed' = scrProcessed + 1
    /\ scrPos' = scrPos + 1
    /\ UNCHANGED <<scrScript, scrpc, scrList, scrFiles, scrBefore, scrBatch, scrFetched, watchVars, parseVars, orderVars>>
    /\ UNCHANGED <<matchVars, enrichVars, geoVars, pureVars, monVars, simVars, jsonVars, repairVars>>

\* the rest of the loop body: scrape, write the output file, processed += 1,
\* break when processed >= batch_size
ScrapeFetch ==
    /\ scrpc = "loop"
    /\ scrPos < Len(scrList)
    /\ scrList[scrPos + 1] \notin scrFiles
    /\ scrFetched' = Append(scrFetched, scrList[scrPos + 1])
    /\ scrFiles' = scrFiles \cup {scrList[scrPos + 1]}
    /\ scrProcessed' = scrProcessed + 1
    /\ scrPos' = scrPos + 1
    /\ scrpc' = IF scrProcessed' >= scrBatch THEN "done" ELSE "loop"
    /\ UNCHANGED <<scrScript, scrList, scrBefore, scrBatch, watchVars, parseVars, orderVars>>
    /\ UNCHANGED <<matchVars, enrichVars, geoVars, pureVars, monVars, simVars, jsonVars, repairVars>>

\* the list is exhausted: "Scraping complete!"
ScrapeFinish ==
    /\ scrpc = "loop"
    /\ scrPos = Len(scrList)
    /\ scrpc' = "done"
    /\ UNCHANGED <<scrScript, scrList, scrFiles, scrBefore, scrBatch, scrPos, scrProcessed,
                   scrFetched, watchVars, parseVars, orderVars>>
    /\ UNCHANGED <<matchVars, enrichVars, geoVars, pureVars, monVars, simVars, jsonVars, repairVars>>

ScrapeAtRest ==
    /\ scrScript = SCRAPE_YELP
    /\ scrList = <<>>
    /\ scrFiles = {}
    /\ ScrapeIdle

ParseAtRest ==
    /\ pScript = FREE
    /\ pAddress = <<>>
    /\ pOther = <<>>
    /\ ParseIdle

(***************************************************************************)
(* A matching run over the records in a given order, each source giving    *)
(* one fixed answer per record.                                            *)
(***************************************************************************)
\* the answers of the sources for one record: a page that loaded, with or
\* without a match
OrderAnswers(s) ==
    {a \in [yelp : YelpResponses(s), tripadvisor : TaResponses(s)] :
        a.yelp.status \in {0, 200} /\ a.tripadvisor.status \in {0, 200}}

\* the orders of the input
Orders == {q \in [1..NumRecords -> Ids] : \A j, k \in 1..NumRecords : q[j] = q[k] => j = k}

\* one pass of the loop body over a record: continue, or entry and searches
Body(s, m, id, has_fields, a) ==
    IF Skips(s, m, id) \/ ~has_fields THEN m
    ELSE Iter(s, m, id, a.yelp, a.tripadvisor)

\* the whole loop over the records in an order
RECURSIVE RunInOrder(_, _, _, _, _)
RunInOrder(s, m, order, input, answers) ==
    IF order = <<>> THEN m
    ELSE RunInOrder(s, Body(s, m, Head(order), input[Head(order)], answers[Head(order)]),
                    Tail(order), input, answers)

OrderIdle ==
    /\ oMapping = EmptyMapping
    /\ oPos = 0

OrderAtRest ==
    /\ oScript = MATCH_RESTAURANTS
    /\ oAnswers = [i \in Ids |-> [yelp |-> NoResponse, tripadvisor |-> NoResponse]]
    /\ oOrder = IdSeq
    /\ OrderIdle

\* the loop goes past the next record of the order
OrderStep ==
    /\ oPos < NumRecords
    /\ oMapping' = Body(oScript, oMapping, oOrder[oPos + 1], buffets[oOrder[oPos + 1]],
                        oAnswers[oOrder[oPos + 1]])
    /\ oPos' = oPos + 1
    /\ UNCHANGED <<oScript, oAnswers, oOrder, watchVars, scrapeVars, parseVars>>
    /\ UNCHANGED <<matchVars, enrichVars, geoVars, pureVars, monVars, simVars, jsonVars, repairVars>>

ExtraIdle ==
    /\ WatchIdle
    /\ ScrapeAtRest
    /\ ParseAtRest
    /\ OrderAtRest

SimIdle ==
    /\ simScore = 0
    /\ simpc = "input"

JsonIdle ==
    /\ jText = <<>>
    /\ jLoaded = JNull
    /\ jpc = "value"

RepairIdle ==
    /\ rTries = <<>>
    /\ rData = JNull
    /\ rOutput = NoOutput
    /\ rResult = "none"

\* no monitor has run and the one-shot tools have no input
ToolsAtRest ==
    /\ MonitorIdle
    /\ simA = <<>>
    /\ simB = <<>>
    /\ SimIdle
    /\ jValue = JNull
    /\ JsonIdle
    /\ rOriginal = <<>>
    /\ rInput = <<>>
    /\ RepairIdle

ToolsIdle ==
    /\ ToolsAtRest
    /\ ExtraIdle

\* the matching, enrichment and geocoding scripts before their first run,
\* on one fixed input each
PipelineIdle ==
    /\ buffets = [i \in Ids |-> TRUE]
    /\ MatchIdle
    /\ yelpFile = Save([i \in Ids |-> Matched(TRUE)])
    /\ EnrichIdle
    /\ entries = [i \in Ids |-> FullEntry]
    /\ GeoIdle
    /\ sCands = <<>>
    /\ sTarget = [city |-> AUSTIN, phone |-> <<>>]
    /\ ScoreIdle
    /\ nInput = <<>>
    /\ NormalizeIdle

(***************************************************************************)
(* Specifications.                                                         *)
(***************************************************************************)
InitMatch ==
    /\ MatchIdle
    /\ EnrichIdle
    /\ yelpFile.data = [i \in Ids |-> Matched(TRUE)]
    /\ GeoIdle
    /\ entries = [i \in Ids |-> FullEntry]
    /\ sCands = <<>>
    /\ sTarget = [city |-> AUSTIN, phone |-> <<>>]
    /\ ScoreIdle
    /\ nInput = <<>>
    /\ NormalizeIdle
    /\ ToolsIdle

NextMatch ==
    \/ StartRun
    \/ SkipRecord
    \/ ProcessRecord
    \/ CrashInSave
    \/ Interrupt
    \/ FinishRun

SpecMatch == InitMatch /\ [][NextMatch]_vars

InitEnrich ==
    /\ MatchIdle
    /\ buffets = [i \in Ids |-> TRUE]
    /\ EnrichIdle
    /\ GeoIdle
    /\ entries = [i \in Ids |-> FullEntry]
    /\ sCands = <<>>
    /\ sTarget = [city |-> AUSTIN, phone |-> <<>>]
    /\ ScoreIdle
    /\ nInput = <<>>
    /\ NormalizeIdle
    /\ ToolsIdle

NextEnrich ==
    \/ StartDetails
    \/ DetailsSkip
    \/ DetailsFetch
    \/ DetailsFinish
    \/ StartEnrich
    \/ EnrichStep
    \/ EnrichFinish
    \/ EnrichInterrupt

SpecEnrich == InitEnrich /\ [][NextEnrich]_vars

InitGeo ==
    /\ MatchIdle
    /\ buffets = [i \in Ids |-> TRUE]
    /\ EnrichIdle
    /\ yelpFile.data = [i \in Ids |-> Matched(TRUE)]
    /\ GeoIdle
    /\ sCands = <<>>
    /\ sTarget = [city |-> AUSTIN, phone |-> <<>>]
    /\ ScoreIdle
    /\ nInput = <<>>
    /\ NormalizeIdle
    /\ ToolsIdle

NextGeo ==
    \/ GeoStart
    \/ GeoSkipEntry
    \/ GeoNoRequest
    \/ GeoRequest
    \/ GeoRaise
    \/ GeoInterruptInLookup
    \/ GeoInterruptOutsideTry
    \/ GeoFinish

SpecGeo == InitGeo /\ [][NextGeo]_vars

\* everything but the searches' inputs is as before the first run
InitScore ==
    /\ MatchIdle
    /\ buffets = [i \in Ids |-> TRUE]
    /\ EnrichIdle
    /\ yelpFile.data = [i \in Ids |-> Matched(TRUE)]
    /\ GeoIdle
    /\ entries = [i \in Ids |-> FullEntry]
    /\ sTarget \in Targets
    /\ sCands \in CandSeqs
    /\ ScoreIdle
    /\ nInput = <<>>
    /\ NormalizeIdle
    /\ ToolsIdle

NextScore ==
    \/ ApplySearchYelpApi
    \/ ApplySearchYelp
    \/ ApplySearchTripadvisor
    \/ ApplySearchYelpSelenium
    \/ ApplySearchTripadvisorSelenium

SpecScore == InitScore /\ [][NextScore]_vars

InitNormalize ==
    /\ MatchIdle
    /\ buffets = [i \in Ids |-> TRUE]
    /\ EnrichIdle
    /\ yelpFile.data = [i \in Ids |-> Matched(TRUE)]
    /\ GeoIdle
    /\ entries = [i \in Ids |-> FullEntry]
    /\ sCands = <<>>
    /\ sTarget = [city |-> AUSTIN, phone |-> <<>>]
    /\ ScoreIdle
    /\ ToolsIdle
    /\ nInput \in Names(MaxPieces)
    /\ NormalizeIdle

NextNormalize ==
    \/ NormalizeOnce
    \/ NormalizeAgain

SpecNormalize == InitNormalize /\ [][NextNormalize]_vars

\* a monitor is started at any moment of the pipeline: it finds whatever
\* files the matchers left
InitMonitor ==
    /\ buffets \in Inputs
    /\ mappingFile \in MonitorFiles
    /\ script = MATCH_RESTAURANTS
    /\ pc = "idle"
    /\ mapping = EmptyMapping
    /\ idx = 0
    /\ calls = 0
    /\ lastStatus = [yelp |-> 0, tripadvisor |-> 0]
    /\ attempts = 0
    /\ trace = <<>>
    /\ EnrichIdle
    /\ entries = [i \in Ids |-> FullEntry]
    /\ GeoIdle
    /\ sCands = <<>>
    /\ sTarget = [city |-> AUSTIN, phone |-> <<>>]
    /\ ScoreIdle
    /\ nInput = <<>>
    /\ NormalizeIdle
    /\ ToolsIdle

NextMonitor ==
    \/ MonitorMatching
    \/ MonitorAllProgress
    \/ MonitorYelpDetails

SpecMonitor == InitMonitor /\ [][NextMonitor]_vars

\* the mapping is any the matcher can have built
InitJson ==
    /\ PipelineIdle
    /\ MonitorIdle
    /\ ExtraIdle
    /\ simA = <<>>
    /\ simB = <<>>
    /\ SimIdle
    /\ rOriginal = <<>>
    /\ rInput = <<>>
    /\ RepairIdle
    /\ JsonIdle
    /\ jValue \in JsonMappings

NextJson ==
    \/ JsonSave
    \/ JsonLoad

SpecJson == InitJson /\ [][NextJson]_vars

\* the two names are any of the bounded token names
InitSimilarity ==
    /\ PipelineIdle
    /\ MonitorIdle
    /\ ExtraIdle
    /\ jValue = JNull
    /\ JsonIdle
    /\ rOriginal = <<>>
    /\ rInput = <<>>
    /\ RepairIdle
    /\ SimIdle
    /\ simA \in BuffetNames
    /\ simB \in BusinessNames

NextSimilarity == CompareNames

SpecSimilarity == InitSimilarity /\ [][NextSimilarity]_vars

\* a matcher started on a fresh input, a monitor watching it
InitWatch ==
    /\ MatchIdle
    /\ yelpFile = Save([i \in Ids |-> Matched(TRUE)])
    /\ EnrichIdle
    /\ entries = [i \in Ids |-> FullEntry]
    /\ GeoIdle
    /\ sCands = <<>>
    /\ sTarget = [city |-> AUSTIN, phone |-> <<>>]
    /\ ScoreIdle
    /\ nInput = <<>>
    /\ NormalizeIdle
    /\ ToolsIdle

NextWatch ==
    \/ WatchedStart
    \/ SkipRecord
    \/ WatchedIteration
    \/ WatchedDump
    \/ FinishRun
    \/ Watch

SpecWatch == InitWatch /\ [][NextWatch]_vars

\* a scraper run again and again on one mapping file; the output directory
\* holds the files of earlier runs
InitScrape ==
    /\ PipelineIdle
    /\ ToolsAtRest
    /\ WatchIdle
    /\ ParseAtRest
    /\ OrderAtRest
    /\ ScrapeIdle
    /\ scrScript \in {SCRAPE_YELP, SCRAPE_TRIPADVISOR}
    /\ scrList \in ScrapeLists
    /\ scrFiles \in SUBSET Range(scrList)

NextScrape ==
    \/ ScrapeStart
    \/ ScrapeSkip
    \/ ScrapeFetch
    \/ ScrapeFinish

SpecScrape == InitScrape /\ [][NextScrape]_vars

\* the string parse applied to an address
InitParse ==
    /\ PipelineIdle
    /\ ToolsAtRest
    /\ WatchIdle
    /\ ScrapeAtRest
    /\ OrderAtRest
    /\ ParseIdle
    /\ pScript \in {FREE, EXTRACTED}
    /\ pOther \in IF pScript = FREE THEN {<<>>, AUSTIN_TOWN} ELSE {<<>>, <<"T", "X">>}
    /\ pAddress \in Addresses

NextParse == ParseAddress

SpecParse == InitParse /\ [][NextParse]_vars

\* a matcher run from an empty mapping over the records in some order
InitOrder ==
    /\ PipelineIdle
    /\ ToolsAtRest
    /\ WatchIdle
    /\ ScrapeAtRest
    /\ ParseAtRest
    /\ OrderIdle
    /\ oScript \in Matchers
    /\ oAnswers \in [Ids -> OrderAnswers(oScript)]
    /\ oOrder \in Orders

NextOrder == OrderStep

SpecOrder == InitOrder /\ [][NextOrder]_vars

\* the input is an array of NumElements elements, whole or cut short
InitRepair ==
    /\ PipelineIdle
    /\ MonitorIdle
    /\ ExtraIdle
    /\ simA = <<>>
    /\ simB = <<>>
    /\ SimIdle
    /\ jValue = JNull
    /\ JsonIdle
    /\ RepairIdle
    /\ rOriginal \in ElementArrays
    /\ rInput \in Truncations(json_dump(JArr(rOriginal)))

NextRepair == RepairRun

SpecRepair == InitRepair /\ [][NextRepair]_vars

(***************************************************************************)
(* Claims about the matchers.                                              *)
(***************************************************************************)
\* the mapping a reader gets from the file (nothing from a torn file)
FileMapping == mappingFile.data

Monotonic(a, b) ==
    \A i \in Ids :
        a[i].present =>
            /\ b[i].present
            /\ (a[i].yelp # Null => b[i].yelp = a[i].yelp)
            /\ (a[i].tripadvisor # Null => b[i].tripadvisor = a[i].tripadvisor)

\* C1: across any sequence of matching runs the mapping of the file is
\* monotonic: no step deletes an entry that is present, sets a populated
\* yelp or tripadvisor slot back to null, or replaces it by another match.
C1_MappingMonotonic == [][Monotonic(FileMapping, FileMapping')]_vars

\* C3: at every point of a run, a crash or interrupt in the middle of a save
\* included, the mapping file on disk is a complete parseable JSON document.
C3_FileAlwaysParseable == Parseable(mappingFile)

\* every input record has every configured source slot of matcher s populated
FullyCheckpointed(s, m) ==
    \A i \in Ids : m[i].present /\ \A src \in SourcesOf(s) : m[i][src] # Null

\* C4: a matcher running on an input whose every record has every configured
\* source slot populated in the mapping file issues no search request (the
\* run's request count, 0 at its start, never rises) and leaves the mapping
\* file unchanged.
C4_ResumeIdempotent ==
    [][(pc' = "loop" /\ Parseable(mappingFile) /\ FullyCheckpointed(script', mappingFile.data))
          => (calls' <= calls /\ mappingFile' = mappingFile)]_vars

\* a completed re-run of the yelp-api matcher on a fully checkpointed mapping
\* in which a tripadvisor slot is still null: every record was skipped
C4_Witness ==
    /\ pc = "done"
    /\ script = MATCH_RESTAURANTS_YELP_API
    /\ idx = NumRecords
    /\ calls = 0
    /\ mappingFile.state = "complete"
    /\ FullyCheckpointed(script, mappingFile.data)
    /\ \E i \in Ids : mappingFile.data[i].tripadvisor = Null

\* C6: the requests a run issues to a metered API never exceed its cap,
\* whatever the number of pending records: the daily allowance of the Yelp
\* Fusion search endpoint, the credits of the menu-URL API.
C6_WithinQuota ==
    /\ script = MATCH_RESTAURANTS_YELP_API => calls <= daily_limit
    /\ eScript = ENRICH => credits_used <= CREDIT_LIMIT

\* C8: after the structured API has answered 401, the run issues no request
\* for any later record.
C8_AuthFailedAborts ==
    [][(pc = "loop" /\ pc' = "loop" /\ script = MATCH_RESTAURANTS_YELP_API
            /\ lastStatus.yelp = 401) => calls' = calls]_vars

\* C10: a record whose search ended on a 429 was given up only after the
\* request had been retried: more than one request was sent for it.
C10_RateLimitedRetried ==
    (script = MATCH_RESTAURANTS_YELP_API /\ pc = "loop" /\ lastStatus.yelp = 429)
        => attempts >= 2

\* the step is a loop iteration of a rendered-page matcher that issued a search
PageIteration ==
    /\ pc = "loop"
    /\ script # MATCH_RESTAURANTS_YELP_API
    /\ calls' > calls

\* C11: when a rendered-page source answers 403 for a record, that source's
\* slot is left as it was, the other source is still queried for the same
\* record if its slot is empty, the record is saved, and the loop goes on to
\* the next record.
C11_ForbiddenSkipsOnlySource ==
    [][ /\ (PageIteration /\ lastStatus'.yelp = 403)
              => /\ pc' = "loop"
                 /\ idx' = idx + 1
                 /\ mapping'[idx'].yelp = Null
                 /\ mappingFile' = Save(mapping')
                 /\ (~(mapping[idx'].present /\ Truthy(mapping[idx'].tripadvisor))
                        => (lastStatus'.tripadvisor # 0 /\ calls' = calls + 2))
        /\ (PageIteration /\ lastStatus'.tripadvisor = 403)
              => /\ pc' = "loop"
                 /\ idx' = idx + 1
                 /\ mapping'[idx'].tripadvisor = Null
                 /\ mappingFile' = Save(mapping')
                 /\ (~(mapping[idx'].present /\ Truthy(mapping[idx'].yelp))
                        => lastStatus'.yelp # 0) ]_vars

\* a finished run of match-restaurants.py whose last record got 403 from
\* Yelp and its match from TripAdvisor all the same, every record having been
\* searched on both sources
C11_Witness ==
    /\ pc = "done"
    /\ script = MATCH_RESTAURANTS
    /\ calls = 2 * NumRecords
    /\ lastStatus = [yelp |-> 403, tripadvisor |-> 200]
    /\ mappingFile.state = "complete"
    /\ mappingFile.data[NumRecords].present
    /\ mappingFile.data[NumRecords].yelp = Null
    /\ mappingFile.data[NumRecords].tripadvisor # Null

\* C14: a matcher started on a mapping file that does not parse repairs it:
\* the run goes on into its loop with a parseable snapshot on disk.
C14_CorruptTriggersRepair ==
    [][(pc # "loop" /\ ~Parseable(mappingFile))
          => (pc' = "loop" /\ Parseable(mappingFile'))]_vars

(***************************************************************************)
(* Claims about the details and menu-URL passes.                           *)
(***************************************************************************)
\* C2: the mapping is written to disk after each individual record: between
\* two iterations of a matching, details or menu-URL loop the file holds
\* exactly the run's in-memory mapping.
C2_SavedAfterEachRecord ==
    /\ pc = "loop" => mapping = mappingFile.data
    /\ epc = "loop" => data = yelpFile.data

\* C5: a menu-URL run capped at N records that found more than N pending
\* ones, met no failed lookup and no quota answer, and has ended, has issued
\* exactly N requests and every one of its N records has its menu_url in the
\* file.
C5_QuotaBoundary ==
    ( /\ eScript = ENRICH
      /\ epc \in {"done", "crashed"}
      /\ Len(todo) = BATCH_SIZE
      /\ \E i \in Ids \ Range(todo) : Missing(yelpFile.data[i])
      /\ failed = 0
      /\ ~out_of_credits )
        => /\ credits_used = BATCH_SIZE
           /\ \A i \in Range(todo) : MenuOf(yelpFile.data[i]) # NoMenu

\* C7: once the menu-URL API has answered 402 or 403 the run issues no
\* further request and ends; when it has ended the file is parseable and
\* holds every update the run made; and the run reports out-of-credits
\* exactly when its last answer was a 402 or a 403.
C7_QuotaExhaustedStops ==
    [][ /\ (eScript = ENRICH /\ epc = "loop" /\ out_of_credits)
              => (epc' \in {"done", "killed"} /\ credits_used' <= credits_used)
        /\ (eScript' = ENRICH /\ epc' = "done" /\ out_of_credits')
              => (Parseable(yelpFile') /\ yelpFile'.data = data')
        /\ (eScript' = ENRICH)
              => (out_of_credits' <=> eStatus' \in {402, 403}) ]_vars

\* a menu-URL run that updated a record, then ran out of credits, and ended
\* with its update in the file
C7_Witness ==
    /\ eScript = ENRICH
    /\ epc = "done"
    /\ out_of_credits
    /\ eStatus \in {402, 403}
    /\ successful > 0
    /\ credits_used = successful + 1
    /\ yelpFile.data = data
    /\ \E i \in Range(todo) : MenuOf(yelpFile.data[i]) # NoMenu

HTTP_PREFIX == <<"h", "t", "t", "p", ":", "/", "/">>
HTTPS_PREFIX == <<"h", "t", "t", "p", "s", ":", "/", "/">>
StartsWith(str, prefix) ==
    Len(str) >= Len(prefix) /\ SubSeq(str, 1, Len(prefix)) = prefix
IsAbsoluteUrl(url) == StartsWith(url, HTTP_PREFIX) \/ StartsWith(url, HTTPS_PREFIX)

\* C29: every menu_url the menu pass stored in a record is an absolute URL
\* with its query parameters stripped.
C29_MenuUrlNormalized ==
    (eScript = ENRICH /\ epc \in {"loop", "done"}) =>
        \A i \in Range(todo) :
            MenuOf(data[i]) # NoMenu =>
                /\ IsAbsoluteUrl(MenuOf(data[i]))
                /\ clean_yelp_url(MenuOf(data[i])) = MenuOf(data[i])

(***************************************************************************)
(* Claims about the geocoding lookups.                                     *)
(***************************************************************************)
AllRateLimited(q) == Len(q) > 0 /\ \A k \in 1..Len(q) : q[k] = 429

IsPrefix(a, b) == Len(a) <= Len(b) /\ \A k \in 1..Len(a) : a[k] = b[k]

\* C9: while every answer for an entry is a 429, at most 3 requests are sent
\* for that entry and the waits made are 2 s, then 4 s.
C9_RateLimitBounded ==
    AllRateLimited(codes) => (Len(codes) <= retries /\ IsPrefix(waits, <<2, 4>>))

\* C12: a run ends only when its input is exhausted, however many entries
\* raised an exception: it never stops on errors before the last entry.
TierRank(t) == IF t = "reverse" THEN 1 ELSE IF t = "forward" THEN 2 ELSE 3

\* C22: the methods of get_neighborhood run in the order reverse lookup,
\* forward lookup, string parse, each only after the one before it returned
\* nothing: nothing runs after a method that yielded a neighborhood, and the
\* parse runs only right after a forward lookup that returned nothing.
C22_TiersInOrder ==
    /\ \A k \in DOMAIN tiers :
          /\ k > 1 => /\ ~tiers[k - 1].yielded
                      /\ TierRank(tiers[k - 1].tier) < TierRank(tiers[k].tier)
          /\ tiers[k].tier = "parse" => (k > 1 /\ tiers[k - 1].tier = "forward")
    /\ gpc \in {"reverse", "forward"} =>
          \A k \in DOMAIN tiers :
              ~tiers[k].yielded /\ TierRank(tiers[k].tier) < TierRank(gpc)

\* all three methods ran for one entry, the last one finding the neighborhood
C22_Witness ==
    /\ gScript = FREE
    /\ tiers = <<[tier |-> "reverse", yielded |-> FALSE],
                 [tier |-> "forward", yielded |-> FALSE],
                 [tier |-> "parse", yielded |-> TRUE]>>
    /\ \E i \in Ids : entries[i].neighborhood = "parsed"

\* C26: a filler overwrites its input file only when a backup copy of it
\* was written before, in the same run.
C26_BackupBeforeOverwrite ==
    [][outFile' # outFile => geoBackup.state = "complete"]_vars

C12_UnexpectedContinues ==
    gpc \in {"done", "stopped"} => gi > NumRecords

\* C13: an interrupted run has written every update it made in memory to the
\* output file.
C13_InterruptFlushes ==
    gpc \in {"interrupted", "killed"} => outFile = entries

(***************************************************************************)
(* Claims about the searches' choice and about normalize_name.             *)
(***************************************************************************)
Searched == sFn # "none"
Found == sResult.index # 0
PageSearches == {"search_yelp", "search_tripadvisor",
                 "search_yelp_selenium", "search_tripadvisor_selenium"}

\* C15: a search discards exactly the candidates whose name similarity is
\* below 70: what it returns has a name similarity of 70 or more, and when a
\* candidate of 70 or more is in the answer the search returns a match.
C15_HardFloor ==
    Searched =>
        /\ Found => sCands[sResult.index].name_score >= 70
        /\ (\E k \in DOMAIN sCands : sCands[k].name_score >= 70) => Found

\* the candidates search_yelp_api may select, and the total of one of them
Eligible(k) == sCands[k].name_score > 70
TotalOf(k) ==
    sCands[k].name_score
        + (IF lower(sTarget.city) = lower(sCands[k].city) THEN 10 ELSE 0)
        + (IF /\ sTarget.phone # <<>>
              /\ sCands[k].phone # <<>>
              /\ normalize_phone(sTarget.phone) = normalize_phone(sCands[k].phone)
           THEN 20 ELSE 0)

C17_PageBestLink ==
    sFn \in PageSearches =>
        IF \E k \in DOMAIN sCands : Eligible(k)
        THEN /\ Found
             /\ Eligible(sResult.index)
             /\ \A k \in DOMAIN sCands :
                    \/ sCands[k].name_score < sCands[sResult.index].name_score
                    \/ /\ sCands[k].name_score = sCands[sResult.index].name_score
                       /\ k >= sResult.index
        ELSE ~Found

\* c with a city or a phone that matches wherever those of d do
MatchesAtLeast(c, d) ==
    /\ c.name_score = d.name_score
    /\ city_match(sTarget, d) => city_match(sTarget, c)
    /\ phone_match(sTarget, d) => phone_match(sTarget, c)

\* C18: with the name similarity kept, a candidate whose city or phone
\* matches where it did not before gets a matchScore at least as high from
\* search_yelp_api.
C18_BonusesNeverLower ==
    sFn = "search_yelp_api" =>
        \A k \in DOMAIN sCands : \A c \in CandTypes :
            MatchesAtLeast(c, sCands[k]) =>
                search_yelp_api_best(sTarget, <<c>>).matchScore
                    >= search_yelp_api_best(sTarget, <<sCands[k]>>).matchScore

\* a returned candidate whose city and phone both differ from the record's
C18_Witness ==
    /\ sFn = "search_yelp_api"
    /\ Found
    /\ sTarget.phone = PHONE_PLAIN
    /\ sCands[sResult.index].city = DALLAS
    /\ sCands[sResult.index].phone = PHONE_OTHER
    /\ sResult.matchScore = sCands[sResult.index].name_score

Reasons == {sResult.matchReason[i] : i \in DOMAIN sResult.matchReason}

\* C19: the matchReason search_yelp_api returns describes the returned
\* candidate: city_match exactly when its city is the record's, phone_match
\* exactly when its phone is the record's, exact_name exactly when its name
\* similarity is 90 or more, high_name_similarity exactly when it is 80 to
\* 89, never both of the last two.
C19_ReasonsDescribeMatch ==
    (sFn = "search_yelp_api" /\ Found) =>
        LET c == sCands[sResult.index]
        IN  /\ "city_match" \in Reasons <=> lower(sTarget.city) = lower(c.city)
            /\ "phone_match" \in Reasons <=>
                   /\ sTarget.phone # <<>>
                   /\ c.phone # <<>>
                   /\ normalize_phone(sTarget.phone) = normalize_phone(c.phone)
            /\ "exact_name" \in Reasons <=> c.name_score >= 90
            /\ "high_name_similarity" \in Reasons <=>
                   (c.name_score >= 80 /\ c.name_score < 90)
            /\ ~("exact_name" \in Reasons /\ "high_name_similarity" \in Reasons)

\* the second candidate replaced the first, and the reasons are its own
C19_Witness ==
    /\ sFn = "search_yelp_api"
    /\ Len(sCands) = 2
    /\ sResult.index = 2
    /\ sCands[1].name_score = 85
    /\ sCands[1].city = DALLAS
    /\ sCands[2].name_score = 95
    /\ sResult.matchReason = <<"city_match", "phone_match", "exact_name">>

\* C20: normalize_name of each of the three matchers gives back what it is
\* given when that is already one of its results.
C20_NormalizeIdempotent ==
    npc = "twice" => nTwice = nOnce

\* a name that lost a word and a run of blanks in the first pass
C20_Witness ==
    /\ npc = "twice"
    /\ nScript = MATCH_RESTAURANTS_YELP_API
    /\ nInput = <<"a", "n">> \o AND_WORD \o <<"d">>
    /\ nOnce = <<"a", "n", " ", "d">>
    /\ nTwice = nOnce

(***************************************************************************)
(* Claims about the progress monitors.                                     *)
(***************************************************************************)
\* C28: a run of a monitor leaves every persisted file as it found it:
\* the mapping files and the matching input are only read.
C28_MonitorsReadOnly ==
    [][mReport' # mReport =>
          /\ mappingFile' = mappingFile
          /\ yelpFile' = yelpFile
          /\ buffets' = buffets
          /\ backupFile' = backupFile
          /\ outFile' = outFile
          /\ geoBackup' = geoBackup]_vars

\* a monitor has reported progress from a mapping file with matches in it
C28_Witness ==
    /\ mReport.monitor = MONITOR_MATCHING
    /\ mReport.outcome = "running"
    /\ mReport.matched > 0
    /\ mappingFile.state = "complete"

(***************************************************************************)
(* Claims about the mapping file's format.                                 *)
(***************************************************************************)
\* C30: a mapping saved and loaded back is the mapping that was saved,
\* entry by entry and field by field, empty (null) slots included.
C30_SaveLoadRoundTrip ==
    jpc \in {"loaded", "raised"} => (jpc = "loaded" /\ jLoaded = jValue)

\* a mapping with an empty slot and a filled one has been loaded back
C30_Witness ==
    /\ jpc = "loaded"
    /\ \E k \in DOMAIN jLoaded.obj :
          /\ jLoaded.obj[k].v.obj[4].k = KEY_YELP
          /\ jLoaded.obj[k].v.obj[4].v \in YelpMatches
          /\ jLoaded.obj[k].v.obj[5].k = KEY_TRIPADVISOR
          /\ jLoaded.obj[k].v.obj[5].v = JNull
          /\ jLoaded.obj[k].v.obj[2].v = JStr(QUOTED_NAME)

(***************************************************************************)
(* Claims about the repair of a truncated file.                            *)
(***************************************************************************)
\* the length of the file's text up to the end of its k-th element
CompleteUpTo(k) == Len(json_dump(JArr(SubSeq(rOriginal, 1, k)))) - 2

\* the input stops after the last element's opening brace and before its
\* closing one
TruncatedInLastElement ==
    /\ Len(rInput) >= CompleteUpTo(NumElements - 1) + 5
    /\ Len(rInput) < CompleteUpTo(NumElements)

\* C23: the repair of an array of N elements cut short inside its last
\* element gives exactly the N-1 elements that were complete.
C23_RepairKeepsCompleteElements ==
    (rResult # "none" /\ TruncatedInLastElement) =>
        /\ rResult = "repaired"
        /\ rData = JArr(SubSeq(rOriginal, 1, NumElements - 1))

\* C24: what the repair gives is a prefix of the original's elements: no
\* element is made up, none is a cut element closed by appended braces.
C24_RepairNeverFabricates ==
    rResult = "repaired" =>
        /\ rData.t = "arr"
        /\ Len(rData.arr) <= NumElements
        /\ \A k \in DOMAIN rData.arr : rData.arr[k] = rOriginal[k]
        /\ json_loads(rOutput.text).val = rData

\* the openers less the closers outside string literals in text[i..]
RECURSIVE StructuralOpen(_, _, _, _, _)
StructuralOpen(text, i, in_string, opener, closer) ==
    IF i > Len(text) THEN 0
    ELSE IF in_string
    THEN IF text[i] = BACKSLASH THEN StructuralOpen(text, i + 2, TRUE, opener, closer)
         ELSE StructuralOpen(text, i + 1, text[i] # QUOTE, opener, closer)
    ELSE (IF text[i] = opener THEN 1 ELSE IF text[i] = closer THEN -1 ELSE 0)
            + StructuralOpen(text, i + 1, text[i] = QUOTE, opener, closer)

\* C25: braces and brackets inside string literals are not counted: the
\* closers appended to a cut text are as many as its structural nesting.
C25_ClosersMatchStructure ==
    \A k \in DOMAIN rTries :
        /\ rTries[k].braces = StructuralOpen(rTries[k].text, 1, FALSE, "{", "}")
        /\ rTries[k].brackets = StructuralOpen(rTries[k].text, 1, FALSE, "[", "]")

\* C27: the input is parsed first; success is either an input that parses,
\* with no file written, or an output that was written and parses again;
\* anything else is a failure with no output file.
C27_RepairOutcomes ==
    rResult # "none" =>
        /\ json_loads(rInput).ok <=> rResult = "valid"
        /\ rResult = "valid" => ~rOutput.written
        /\ rResult = "repaired" =>
              /\ rOutput.written
              /\ json_loads(rOutput.text).ok
              /\ json_loads(rOutput.text).val = rData
        /\ rResult = "failed" => ~rOutput.written
        /\ rResult \in {"valid", "repaired", "failed"}

\* a cut file was repaired and the output written
C27_Witness ==
    /\ rResult = "repaired"
    /\ TruncatedInLastElement
    /\ rOutput.written
    /\ rTries # <<>>

(***************************************************************************)
(* Claims about the name comparison.                                       *)
(***************************************************************************)
FillerTokens == {RESTAURANT_WORD, CHINESE_WORD, BUFFET_WORD, AMPERSAND, AND_WORD}

\* the tokens of a name (what whitespace separates), in lower case, the
\* filler tokens left out
RECURSIVE Skeleton(_, _, _)
Skeleton(name, token, acc) ==
    LET done == IF token = <<>> \/ token \in FillerTokens THEN acc ELSE Append(acc, token)
    IN  IF name = <<>> THEN done
        ELSE IF Head(name) \in Whitespace THEN Skeleton(Tail(name), <<>>, done)
        ELSE Skeleton(Tail(name), Append(token, LowerChar(Head(name))), acc)

\* C21: two names that differ only in letter case, in filler tokens and in
\* the whitespace between tokens normalize to the same string and score a
\* name similarity of 90 or more.
C21_FillerCaseWhitespaceIgnored ==
    (simpc = "scored" /\ Skeleton(simA, <<>>, <<>>) = Skeleton(simB, <<>>, <<>>)) =>
        /\ normalize_name(MATCH_RESTAURANTS_YELP_API, simA)
              = normalize_name(MATCH_RESTAURANTS_YELP_API, simB)
        /\ simScore >= 90

\* "ABC Buffet & Grill" has been compared with "abc grill"
C21_Witness ==
    /\ simpc = "scored"
    /\ simA = <<"A", "B", "C", " ", "B", "u", "f", "f", "e", "t", " ", "&", " ",
                "G", "r", "i", "l", "l">>
    /\ simB = <<"a", "b", "c", " ", "g", "r", "i", "l", "l">>
    /\ simScore >= 90

(***************************************************************************)
(* Claims about the details pass and the order of the enrichment passes.   *)
(***************************************************************************)
\* C35: after any sequence of details and menu-URL passes, in any order, a
\* yelp slot of the file has either no details or a whole details object:
\* no record is left with a details object that holds only
\* attributes.menu_url, and the details pass goes past no such record.
C35_DetailsWholeOrAbsent ==
    /\ \A i \in Ids : yelpFile.data[i].yelp => yelpFile.data[i].details \in {"none", "full"}
    /\ (eScript = DETAILS /\ epc = "loop")
          => \A k \in 1..pos : data[todo[k]].details # "menu_only"

\* C40: in the details pass a record that has details is passed without a
\* request; a record without details is requested, and when the request
\* fails (401, 404, any other status) the record stays as it was, without
\* details, the error is counted and the loop goes on; a new run takes up
\* every record with a yelp slot, so a record left without details is
\* requested again.
C40_FailedDetailsRetried ==
    [][ /\ (eScript = DETAILS /\ epc = "loop" /\ pos' = pos + 1)
            => /\ HasDetails(data[todo[pos + 1]])
                    => (data' = data /\ processed' = processed /\ errors' = errors)
               /\ ~HasDetails(data[todo[pos + 1]])
                    => /\ processed' = processed + 1
                       /\ eStatus' # 200
                            => /\ data' = data
                               /\ ~HasDetails(data'[todo[pos + 1]])
                               /\ errors' = errors + 1
                               /\ epc' = "loop"
                       /\ eStatus' = 200
                            => (data'[todo[pos + 1]].details = "full" /\ errors' = errors)
        /\ (epc # "loop" /\ eScript' = DETAILS /\ epc' = "loop")
            => \A i \in Ids : yelpFile.data[i].yelp => i \in Range(todo') ]_vars

\* a details run whose first request failed and left the record without
\* details, and which went on to fetch the details of a later record
C40_Witness ==
    /\ eScript = DETAILS
    /\ epc = "loop"
    /\ pos >= 2
    /\ errors = 1
    /\ processed = 2
    /\ eStatus = 200
    /\ ~HasDetails(data[todo[1]])
    /\ data[todo[pos]].details = "full"

(***************************************************************************)
(* Claims about the requests of a matching run.                            *)
(***************************************************************************)
\* the positions of the requests to a host in a sequence of events
Requests(w, host) == {k \in 1..Len(w) : w[k].op = "get" /\ w[k].host = host}
Searches(w, host) == {k \in Requests(w, host) : w[k].page = "search"}

\* the time slept strictly between two positions
RECURSIVE Slept(_, _, _)
Slept(w, j, k) ==
    IF j + 1 >= k THEN 0 ELSE w[j + 1].seconds + Slept(w, j + 1, k)

\* the host a source slot is searched on
SourceSlots == {"yelp", "tripadvisor"}

\* C31: for each record a run processes, the sources are queried in the fixed
\* order Yelp, then TripAdvisor, each at most once; a source that was not
\* queried keeps its slot, a source that answered no match leaves its slot
\* null; and whatever the answers were the run is still in its loop, one
\* record further.
C31_SourcesInOrderOnce ==
    [][ /\ (pc = "loop" /\ idx' = idx + 1 /\ calls' > calls)
            => /\ \A h \in SourceSlots : Cardinality(Searches(trace', h)) <= 1
               /\ \A a \in Searches(trace', "yelp"), b \in Searches(trace', "tripadvisor") : a < b
               /\ Cardinality(Searches(trace', "yelp")) + Cardinality(Searches(trace', "tripadvisor"))
                      = calls' - calls
               /\ \A h \in SourceSlots :
                     /\ lastStatus'[h] = 0
                           => (Searches(trace', h) = {} /\ mapping'[idx + 1][h] = mapping[idx + 1][h])
                     /\ lastStatus'[h] # 0
                           => (Searches(trace', h) # {} /\ mapping[idx + 1][h] = Null)
                     /\ lastStatus'[h] \notin {0, 200} => mapping'[idx + 1][h] = Null
               /\ pc' = "loop"
        /\ (pc = "loop" /\ pc' = "loop") => idx' \in {idx, idx + 1} ]_vars

\* match-restaurants.py past a record whose Yelp search was blocked: the slot
\* stayed null, TripAdvisor was queried after it and matched
C31_Witness ==
    /\ script = MATCH_RESTAURANTS
    /\ pc = "loop"
    /\ idx = 2
    /\ lastStatus = [yelp |-> 403, tripadvisor |-> 200]
    /\ Searches(trace, "yelp") = {2}
    /\ Searches(trace, "tripadvisor") = {4}
    /\ mapping[2].yelp = Null
    /\ mapping[2].tripadvisor # Null

\* C32: every search query of a rendered page is preceded, in the same
\* iteration, by a visit to the home page of its source, in the requests
\* matcher and in the Selenium matcher alike.
C32_HomePageBeforeSearch ==
    script \in {MATCH_RESTAURANTS, MATCH_RESTAURANTS_SELENIUM}
        => \A k \in 1..Len(trace) :
              (trace[k].op = "get" /\ trace[k].page = "search")
                  => \E j \in 1..(k - 1) : trace[j] = Get(trace[k].host, "home")

\* the fixed delay of a source: time.sleep(2) in match-restaurants.py,
\* time.sleep(0.2) in the yelp-api matcher, time.sleep(2) and time.sleep(3)
\* in the loop of the Selenium matcher
Delay(s, host) ==
    IF s = MATCH_RESTAURANTS_YELP_API THEN 2
    ELSE IF s = MATCH_RESTAURANTS_SELENIUM /\ host = "tripadvisor" THEN 30
    ELSE 20

\* between a request to a host and the next one to the same host the delay
\* has been slept; a home page visit and the search it opens count as one
DelaysKept(w, s) ==
    \A h \in SourceSlots :
        \A j, k \in Requests(w, h) :
            ( /\ j < k
              /\ \A i \in Requests(w, h) : ~(j < i /\ i < k)
              /\ ~(w[j].page = "home" /\ w[k].page = "search") )
                => Slept(w, j, k) >= Delay(s, h)

\* C33: between two consecutive requests of a run to the same host the
\* source's fixed delay elapses, whatever the first of them ended in: a
\* search without a match, a match, a 403 or an exception.
C33_DelayBetweenRequests ==
    [][ (pc = "loop" /\ idx' = idx + 1 /\ calls' > calls)
            => DelaysKept(trace \o trace', script) ]_vars

\* C37: in a run, a record with name, city and state is queried exactly
\* once for each source slot of the matcher that is null when the loop
\* reaches it, and for no other; this holds for a record that has an entry
\* from an earlier run.  A record without name, city or state causes no
\* request, no write, and has no entry.
C37_NullSlotsQueriedOnce ==
    [][ (pc = "loop" /\ idx' = idx + 1)
            => IF buffets[idx + 1]
               THEN /\ calls' - calls
                          = Cardinality({h \in SourcesOf(script) : mapping[idx + 1][h] = Null})
                    /\ calls' > calls
                          => \A h \in SourceSlots :
                                Cardinality(Searches(trace', h))
                                    = IF h \in SourcesOf(script) /\ mapping[idx + 1][h] = Null
                                      THEN 1 ELSE 0
               ELSE /\ calls' = calls
                    /\ mapping' = mapping
                    /\ mappingFile' = mappingFile
                    /\ ~mapping'[idx + 1].present ]_vars

\* a run that passed a record without name, city or state, leaving it
\* without an entry, and then queried only TripAdvisor for a record whose
\* entry an earlier run had left with a Yelp match and no TripAdvisor match
C37_Witness ==
    /\ script = MATCH_RESTAURANTS
    /\ pc = "loop"
    /\ idx >= 2
    /\ \E i \in 1..(idx - 1) : ~buffets[i] /\ ~mapping[i].present
    /\ calls >= 1
    /\ lastStatus.yelp = 0
    /\ lastStatus.tripadvisor = 200
    /\ Searches(trace, "yelp") = {}
    /\ Searches(trace, "tripadvisor") # {}
    /\ mapping[idx].yelp # Null

(***************************************************************************)
(* Claims about a monitor that runs beside a matcher.                      *)
(***************************************************************************)
\* C38: a progress monitor that runs while a matching run writes the mapping
\* file always reads a complete, parseable mapping, and the processed count
\* it reports is never lower than the one it reported before in that run.
C38_MonitorReadsWholeMapping ==
    /\ mReport.outcome # "raised"
    /\ mReport.outcome \in {"running", "done"} => mReport.processed >= mEarlier

(***************************************************************************)
(* Claims about the scrapers.                                              *)
(***************************************************************************)
Min(a, b) == IF a <= b THEN a ELSE b

\* C39: a run of scrape_yelp_from_mapping or scrape_tripadvisor_from_mapping
\* that has ended has scraped exactly min(batch_size, number of matched
\* records without an output file) records, however many were scraped
\* before, and no record it scraped had an output file when the run began.
C39_BatchCountsNewRecords ==
    /\ scrpc = "done"
          => Len(scrFetched)
                = Min(scrBatch, Cardinality(Range(scrList) \ scrBefore))
    /\ Range(scrFetched) \cap scrBefore = {}

(***************************************************************************)
(* Claims about the string parse of an address.                            *)
(***************************************************************************)
\* the comma-separated tokens of an address, stripped
AddressTokens(address) == Range(StripAll(split_commas(address, <<>>)))

\* C36: what the string parse returns is one comma-separated token of the
\* address; it is no two-uppercase-letter state code and does not start
\* with five digits; it begins with a capital, and it is either a phrase of
\* at most three words one of which is a locality-indicator word, or a
\* single alphabetic word.
C36_ParseReturnsLocalityToken ==
    (ppc = "parsed" /\ pResult.found)
        => /\ pResult.value \in AddressTokens(pAddress)
           /\ ~IsStateCode(pResult.value)
           /\ ~StartsWithZip(pResult.value)
           /\ pResult.value[1] \in UpperLetters
           /\ \/ /\ Len(split_whitespace(pResult.value, <<>>)) <= 3
                 /\ Range(split_whitespace(pResult.value, <<>>)) \cap neighborhood_indicators # {}
              \/ /\ Len(split_whitespace(pResult.value, <<>>)) = 1
                 /\ isalpha(pResult.value)

(***************************************************************************)
(* Claims about the order of the records.                                  *)
(***************************************************************************)
\* C34: with one fixed answer per record and source, the entry of every
\* record a run has gone past is the entry the run over the input in file
\* order gives it, and a full run ends with the mapping of that run,
\* whatever the order of the records.
C34_OrderIndependent ==
    /\ \A k \in 1..oPos :
          oMapping[oOrder[k]]
              = RunInOrder(oScript, EmptyMapping, IdSeq, buffets, oAnswers)[oOrder[k]]
    /\ oPos = NumRecords
          => oMapping = RunInOrder(oScript, EmptyMapping, IdSeq, buffets, oAnswers)

\* a full run in the reverse of the file order, in which the first record
\* processed got no Yelp match and a later one got one
C34_Witness ==
    /\ oPos = NumRecords
    /\ oOrder[1] = NumRecords
    /\ oOrder[NumRecords] = 1
    /\ oMapping[NumRecords].present
    /\ oMapping[NumRecords].yelp = Null
    /\ oMapping[1].yelp # Null

====
